---- MODULE Spec2Model ----
(***************************************************************************)
(* MockHttp (test/util/http.js of the frontend): a series of request-      *)
(* response cycles.  A series is configured with builder calls (route,     *)
(* mount, request, respond, ...) and executed by afterResponses(), which   *)
(* runs a promise chain (the pipeline) while a transport stub answers the  *)
(* application's requests from the queued response callbacks, in order.    *)
(*                                                                         *)
(* Three views of the same objects are checked:                            *)
(*   SpecBuild   the builder calls on MockHttp objects (the setup phase);  *)
(*   Spec        the execution of one series, with its hooks, its queued   *)
(*               responses and the requests of the application;            *)
(*   SpecSeries  several series, chained or not, competing for the lock.   *)
(***************************************************************************)
EXTENDS Integers, Sequences, FiniteSets, TLC

\* Bounds of the model.
NumSeries == 3        \* series executed in SpecSeries
MaxResponses == 2     \* queued responses per series in Spec
MaxRequests == 3      \* requests the application sends to one stub
MaxObjects == 4       \* MockHttp objects created in SpecBuild

VARIABLES
  series,       \* the MockHttp objects: id -> configuration (constructor fields)
  arrays,       \* the heap of response arrays: id -> sequence of callbacks
  call,         \* the last builder call: its method and its receiver
  thrown,       \* the error thrown synchronously by the last call ("" if none)
  pc,           \* position of each series in its afterResponses() promise chain
  err,          \* state of that chain: "" (fulfilled so far) or the rejection
  ctx,          \* the properties _initialPromise() sets on each MockHttp
  inProgress,   \* the module-level flag `inProgress`
  http,         \* Vue.prototype.$http: 0 the original transport, s the stub of s
  lastNavigationWasConfirmed, \* store.state.router.lastNavigationWasConfirmed
  completion,   \* the callback each series passes to afterResponses()
  store,        \* the store: the current route and the alert
  requestMixin, \* a component that uses the request mixin, and its request
  lifecycle     \* lifecycle.js: the components to destroy and the document

vars == <<series, arrays, call, thrown, pc, err, ctx, inProgress, http,
          lastNavigationWasConfirmed, completion, store, requestMixin,
          lifecycle>>

\* The variables of the application under test and of its mounting.
appVars == <<store, requestMixin, lifecycle>>

\* lifecycle.js before any mount(): componentsToDestroy is empty, no element
\* is attached to the document and no wrapper was created.
NothingMounted == [componentsToDestroy |-> <<>>, document |-> {}, wrappers |-> 0]

\* The store and the request of the mixin before anything happened.
InitialStore == [currentRoute |-> 1, alert |-> ""]
NoRequest ==
  [pc |-> "idle", awaitingResponse |-> "undefined", currentRoute |-> 0,
   fulfillProblem |-> "undefined", transport |-> "pending",
   consulted |-> FALSE, logged |-> FALSE, settled |-> ""]

\* The variables of the application are those of a test that mounts nothing
\* and sends nothing through the mixin.
NoApplication ==
  /\ store = InitialStore
  /\ requestMixin = NoRequest
  /\ lifecycle = NothingMounted

Null == 0             \* null / undefined
OriginalHttp == 0     \* the transport before any series replaced it

----------------------------------------------------------------------------
(* Values returned by the callbacks passed to respond().  A number with one *)
(* decimal (a Problem code such as 404.1) is kept in tenths: 4041.          *)

Codes == {4041, 5001}
DefaultProblemCode == 5001
DefaultMessage == "There was a problem."

\* What callback() returns or does: a plain value, { problem: code },
\* { problem: { code, message } }, or a throw.
PlainValue(v) == [ret |-> "value", v |-> v, code |-> 0, message |-> ""]
ProblemCode(c) == [ret |-> "problemCode", v |-> 0, code |-> c, message |-> ""]
ProblemObject(c, m) == [ret |-> "problemObject", v |-> 0, code |-> c, message |-> m]
Throws == [ret |-> "throw", v |-> 0, code |-> 0, message |-> ""]

\* Math.floor of a number kept in tenths (Ceil: Math.ceil in its place).
Ceil(c) == (c + 9) \div 10
Floor(c) == c \div 10

\* The body of a response: a plain value or a Problem { code, message }.
DataBody(v) == [t |-> "data", v |-> v, code |-> 0, message |-> ""]
ProblemBody(c, m) == [t |-> "problem", v |-> 0, code |-> c, message |-> m]

\* The function respond() queues, applied to what callback() returned.
Wrapped(result) ==
  IF result.ret = "value" THEN [status |-> 200, data |-> DataBody(result.v)]
  ELSE IF result.ret = "problemObject"
    THEN [status |-> Floor(result.code),
          data |-> ProblemBody(result.code, result.message)]
  ELSE [status |-> Floor(result.code),
        data |-> ProblemBody(result.code, DefaultMessage)]

----------------------------------------------------------------------------
(* The builder: every configuration method returns a new MockHttp.         *)

\* new MockHttp() with the constructor's defaults; `responses` names the
\* array the constructor's default `[]` creates.
NewMockHttp(previousPromise, array) ==
  [previousPromise |-> previousPromise, location |-> Null,
   beforeEachNavGuard |-> Null, mount |-> Null, request |-> Null,
   responses |-> array, beforeAnyResponse |-> Null,
   beforeEachResponse |-> Null]

\* The id of the object (and of the array) the next constructor call creates.
Fresh == Len(series) + 1

Locations == {1, 2}
Callbacks == {1}
Components == {1}
ResponseCallbacks == {PlainValue(1), ProblemCode(4041), Throws}

\* { ...fields of this, ...options }
_with(m, options) ==
  [f \in DOMAIN m |-> IF f \in DOMAIN options THEN options[f] ELSE m[f]]

execVars ==
  <<err, ctx, inProgress, http, lastNavigationWasConfirmed, completion, appVars>>

\* A call that throws: no object is created.
Throw(message) ==
  /\ thrown' = message
  /\ UNCHANGED <<series, arrays, pc, execVars>>

Called(method, r) == call' = [method |-> method, receiver |-> r]
NoCall == [method |-> "", receiver |-> 0]
\* A call of respondForComponent(), respondFor() or load(), with its
\* component or location and its options.
CalledWith(method, r, argument, options) ==
  call' = [method |-> method, receiver |-> r, argument |-> argument,
           options |-> options]

\* A call that returns the new MockHttp `m`, whose constructor was given the
\* array `m.responses`; `array` is the content of the array created for it.
Return(m, array) ==
  /\ Len(series) < MaxObjects
  /\ series' = Append(series, m)
  /\ arrays' = Append(arrays, array)
  /\ pc' = Append(pc, "config")
  /\ thrown' = ""
  /\ UNCHANGED execVars

Receiver(r) == r \in 1..Len(series)

mockHttp ==
  /\ Called("mockHttp", 0)
  /\ Return(NewMockHttp(Null, Fresh), <<>>)

routeTwice(r, location) ==
  /\ Receiver(r)
  /\ Called("route", r)
  /\ Return(_with(series[r], [location |-> location]), <<>>)
route(r, location) ==
  /\ Receiver(r)
  /\ Called("route", r)
  /\ IF series[r].location # Null
       THEN Throw("cannot call route() more than once in a single series")
       ELSE Return(_with(series[r], [location |-> location]), <<>>)

beforeEachNav(r, callback) ==
  /\ Receiver(r)
  /\ Called("beforeEachNav", r)
  /\ IF series[r].beforeEachNavGuard # Null
       THEN Throw("cannot call beforeEachNav() more than once in a single chain")
       ELSE Return(_with(series[r], [beforeEachNavGuard |-> callback]), <<>>)

mountAfterFirst(r, component) ==
  /\ Receiver(r)
  /\ Called("mount", r)
  /\ IF series[r].mount # Null
       THEN Throw("cannot call mount() more than once in a single chain")
       ELSE Return(_with(series[r], [mount |-> component]), <<>>)
mount(r, component) ==
  /\ Receiver(r)
  /\ Called("mount", r)
  /\ IF series[r].mount # Null
       THEN Throw("cannot call mount() more than once in a single chain")
     ELSE IF series[r].previousPromise # Null
       THEN Throw("cannot call mount() after the first series in a chain")
       ELSE Return(_with(series[r], [mount |-> component]), <<>>)

request(r, callback) ==
  /\ Receiver(r)
  /\ Called("request", r)
  /\ IF series[r].request # Null
       THEN Throw("cannot call request() more than once in a single series")
       ELSE Return(_with(series[r], [request |-> callback]), <<>>)

\* respond() passes a new array, [...this._responses, wrapper], to _with().
respondInPlace(r, callback) ==
  /\ Receiver(r)
  /\ Called("respond", r)
  /\ Len(series) < MaxObjects
  /\ series' = Append(series, series[r])
  /\ arrays' = Append([arrays EXCEPT ![series[r].responses] = Append(@, callback)],
                      <<>>)
  /\ pc' = Append(pc, "config")
  /\ thrown' = ""
  /\ UNCHANGED execVars
respond(r, callback) ==
  /\ Receiver(r)
  /\ Called("respond", r)
  /\ Return(_with(series[r], [responses |-> Fresh]),
            Append(arrays[series[r].responses], callback))

respondWithData(r, callback) == respond(r, callback)
respondWithSuccess(r) == respond(r, PlainValue(1))

\* respondWithProblem(problemOrCode = 500.1): the argument is a code, a
\* Problem { code, message } or undefined; the callback queued returns
\* { problem: problemOrCode }.
Undefined == [ret |-> "undefined", v |-> 0, code |-> 0, message |-> ""]
Number(c) == [ret |-> "number", v |-> 0, code |-> c, message |-> ""]
ProblemArguments ==
  {Undefined, Number(4041), ProblemObject(5001, "Failed.")}
respondWithProblemCallback(problemOrCode) ==
  IF problemOrCode = Undefined THEN ProblemCode(DefaultProblemCode)
  ELSE IF problemOrCode.ret = "number" THEN ProblemCode(problemOrCode.code)
  ELSE problemOrCode
respondWithProblem(r, problemOrCode) ==
  respond(r, respondWithProblemCallback(problemOrCode))

\* respondForComponent(component, options): the request data a component
\* declares is an ordered list of [key, callback]; options[key] is undefined,
\* false, a number or a response callback.
False == [ret |-> "false", v |-> 0, code |-> 0, message |-> ""]
Keys == {1, 2}
ComponentNames == {1, 2, 3}
requestDataByComponent(name) ==
  IF name = 1
    THEN <<[key |-> 1, callback |-> PlainValue(1)],
           [key |-> 2, callback |-> PlainValue(2)]>>
  ELSE IF name = 2
    THEN <<[key |-> 2, callback |-> PlainValue(3)]>>
    ELSE <<>>
NoOptions == [key \in Keys |-> Undefined]
Options ==
  {NoOptions,
   [key \in Keys |-> IF key = 1 THEN False ELSE Number(4041)],
   [key \in Keys |-> IF key = 1 THEN Throws ELSE False]}

\* The callbacks the reduce() of respondForComponent() queues, in order.
RECURSIVE ComponentCallbacksDefaultForFalse(_, _)
ComponentCallbacksDefaultForFalse(data, options) ==
  IF data = <<>> THEN <<>>
  ELSE LET option == options[Head(data).key]
           rest == ComponentCallbacksDefaultForFalse(Tail(data), options)
       IN IF option = Undefined \/ option = False
            THEN <<Head(data).callback>> \o rest
          ELSE IF option.ret = "number"
            THEN <<respondWithProblemCallback(option)>> \o rest
          ELSE <<option>> \o rest
RECURSIVE ComponentCallbacks(_, _)
ComponentCallbacks(data, options) ==
  IF data = <<>> THEN <<>>
  ELSE LET option == options[Head(data).key]
           rest == ComponentCallbacks(Tail(data), options)
       IN IF option = Undefined THEN <<Head(data).callback>> \o rest
          ELSE IF option = False THEN rest
          ELSE IF option.ret = "number"
            THEN <<respondWithProblemCallback(option)>> \o rest
          ELSE <<option>> \o rest

\* series.respond(c1).respond(c2)...: the objects and arrays after the
\* successive respond() calls of a reduce() that starts from object r.
RECURSIVE respondEach(_, _, _, _)
respondEach(objects, heap, r, callbacks) ==
  IF callbacks = <<>> THEN [series |-> objects, arrays |-> heap]
  ELSE respondEach(
         Append(objects, _with(objects[r], [responses |-> Len(objects) + 1])),
         Append(heap, Append(heap[objects[r].responses], Head(callbacks))),
         Len(objects) + 1, Tail(callbacks))

\* The value of the reduce(): the last object created, or the initial value
\* (the receiver) when no callback was queued.
ReturnEach(objects, heap, r, callbacks) ==
  /\ Len(objects) + Len(callbacks) <= MaxObjects
  /\ series' = respondEach(objects, heap, r, callbacks).series
  /\ arrays' = respondEach(objects, heap, r, callbacks).arrays
  /\ pc' = [i \in 1..(Len(objects) + Len(callbacks)) |->
              IF i <= Len(pc) THEN pc[i] ELSE "config"]
  /\ thrown' = ""
  /\ UNCHANGED execVars

respondForComponent(r, component, options) ==
  /\ Receiver(r)
  /\ CalledWith("respondForComponent", r, component, options)
  /\ ReturnEach(series, arrays, r,
                ComponentCallbacks(requestDataByComponent(component), options))

\* routeComponents(router.resolve(location).route): the components matched
\* by the route, outer to inner.
routeComponents(location) == IF location = 1 THEN <<2, 1>> ELSE <<3>>

RECURSIVE RouteCallbacksInnerFirst(_, _)
RouteCallbacksInnerFirst(components, options) ==
  IF components = <<>> THEN <<>>
  ELSE RouteCallbacksInnerFirst(Tail(components), options)
         \o ComponentCallbacks(requestDataByComponent(Head(components)),
                               options)
RECURSIVE RouteCallbacks(_, _)
RouteCallbacks(components, options) ==
  IF components = <<>> THEN <<>>
  ELSE ComponentCallbacks(requestDataByComponent(Head(components)), options)
         \o RouteCallbacks(Tail(components), options)

respondFor(r, location, options) ==
  /\ Receiver(r)
  /\ CalledWith("respondFor", r, location, options)
  /\ ReturnEach(series, arrays, r,
                RouteCallbacks(routeComponents(location), options))

\* this.route(location).respondFor(location, options)
load(r, location, options) ==
  /\ Receiver(r)
  /\ CalledWith("load", r, location, options)
  /\ IF series[r].location # Null
       THEN Throw("cannot call route() more than once in a single series")
       ELSE ReturnEach(Append(series, _with(series[r], [location |-> location])),
                       Append(arrays, <<>>), Fresh,
                       RouteCallbacks(routeComponents(location), options))

beforeAnyResponse(r, callback) ==
  /\ Receiver(r)
  /\ Called("beforeAnyResponse", r)
  /\ IF series[r].beforeAnyResponse # Null
       THEN Throw("cannot call beforeAnyResponse() more than once in a single series")
       ELSE Return(_with(series[r], [beforeAnyResponse |-> callback]), <<>>)

beforeEachResponse(r, callback) ==
  /\ Receiver(r)
  /\ Called("beforeEachResponse", r)
  /\ IF series[r].beforeEachResponse # Null
       THEN Throw("cannot call beforeEachResponse() more than once in a single series")
       ELSE Return(_with(series[r], [beforeEachResponse |-> callback]), <<>>)

NothingToDo(m) == m.location = Null /\ m.mount = Null /\ m.request = Null

\* afterResponses() as the setup phase sees it: the synchronous check, the
\* promise chain registered on the receiver, and the MockHttp returned, which
\* has the promise of the receiver's series as its previousPromise.
afterResponsesReturn(r) ==
  /\ Receiver(r)
  /\ Called("afterResponses", r)
  /\ IF NothingToDo(series[r])
       THEN Throw("route(), mount(), and/or request() required")
       ELSE /\ Len(series) < MaxObjects
            /\ series' = Append(series, NewMockHttp(r, Fresh))
            /\ arrays' = Append(arrays, <<>>)
            /\ pc' = Append([pc EXCEPT ![r] = "init"], "config")
            /\ thrown' = ""
            /\ UNCHANGED execVars

complete(r) == afterResponsesReturn(r)

\* The callbacks the setup phase passes to respond().
DataCallbacks == {PlainValue(1), Throws}

InitBuild ==
  /\ series = <<NewMockHttp(Null, 1)>>
  /\ arrays = <<(<<>>)>>
  /\ call = [method |-> "mockHttp", receiver |-> 0]
  /\ pc = <<"config">>
  /\ thrown = ""
  /\ err = <<>>
  /\ ctx = <<>>
  /\ inProgress = FALSE
  /\ http = OriginalHttp
  /\ lastNavigationWasConfirmed = FALSE
  /\ completion = <<>>
  /\ NoApplication

NextBuild ==
  \/ mockHttp
  \/ \E r \in 1..Len(series), location \in Locations : route(r, location)
  \/ \E r \in 1..Len(series), callback \in Callbacks : beforeEachNav(r, callback)
  \/ \E r \in 1..Len(series), component \in Components : mount(r, component)
  \/ \E r \in 1..Len(series), callback \in Callbacks : request(r, callback)
  \/ \E r \in 1..Len(series), callback \in DataCallbacks :
       respond(r, callback)
  \/ \E r \in 1..Len(series), callback \in DataCallbacks :
       respondWithData(r, callback)
  \/ \E r \in 1..Len(series) : respondWithSuccess(r)
  \/ \E r \in 1..Len(series), problemOrCode \in ProblemArguments :
       respondWithProblem(r, problemOrCode)
  \/ \E r \in 1..Len(series), component \in ComponentNames :
       respondForComponent(r, component, NoOptions)
  \/ \E r \in 1..Len(series), location \in Locations :
       respondFor(r, location, NoOptions)
  \/ \E r \in 1..Len(series), location \in Locations :
       load(r, location, NoOptions)
  \/ \E r \in 1..Len(series), callback \in Callbacks :
       beforeAnyResponse(r, callback)
  \/ \E r \in 1..Len(series), callback \in Callbacks :
       beforeEachResponse(r, callback)
  \/ \E r \in 1..Len(series) : afterResponsesReturn(r)
  \/ \E r \in 1..Len(series) : complete(r)

SpecBuild == InitBuild /\ [][NextBuild]_vars

\* The calls that queue responses, with every kind of option.
NextFold ==
  \/ \E r \in 1..Len(series), location \in Locations : route(r, location)
  \/ \E r \in 1..Len(series), callback \in DataCallbacks :
       respond(r, callback)
  \/ \E r \in 1..Len(series), component \in ComponentNames,
          options \in Options : respondForComponent(r, component, options)
  \/ \E r \in 1..Len(series), location \in Locations, options \in Options :
       respondFor(r, location, options)
  \/ \E r \in 1..Len(series), location \in Locations, options \in Options :
       load(r, location, options)

SpecFold == InitBuild /\ [][NextFold]_vars

----------------------------------------------------------------------------
(* Execution.  Each series is at one place of the promise chain that        *)
(* afterResponses() builds; the stub installed as $http answers requests.   *)

Series == DOMAIN series

\* The properties of a MockHttp before _initialPromise() has set them, and
\* the request counter of its stub.
InitialContext ==
  [inProgress |-> FALSE, previousHttp |-> OriginalHttp, component |-> Null,
   guardInstalled |-> FALSE, count |-> 0, responsesPromise |-> 0,
   errorFromBeforeEachNav |-> FALSE, errorFromBeforeAnyResponse |-> FALSE,
   errorFromBeforeEachResponse |-> FALSE, errorFromResponse |-> Null,
   requestWithoutResponse |-> FALSE, responseWithoutRequest |-> FALSE,
   requestResponseLog |-> <<>>, chain |-> <<>>, hookCalls |-> <<>>,
   events |-> <<>>, guardCalls |-> <<>>, callbackCalls |-> 0]

Predecessor(s) == series[s].previousPromise
Responses(s) == arrays[series[s].responses]

\* Entries of _requestResponseLog: the config of a request (its number among
\* the requests the stub received) or a response { status, data }.
LogRequest(n) ==
  [entry |-> "request", n |-> n, status |-> 0, data |-> DataBody(0)]
LogResponse(response) ==
  [entry |-> "response", n |-> 0, status |-> response.status,
   data |-> response.data]
NoResponse == [status |-> 0, data |-> DataBody(0)]

Requests(s) ==
  {k \in 1..Len(ctx[s].requestResponseLog) :
     ctx[s].requestResponseLog[k].entry = "request"}

\* The steps of the chain that are skipped when the promise is rejected: a
\* rejection passes the then() callbacks and runs the finally() callbacks.
Rejected(s, message, to) ==
  /\ err' = [err EXCEPT ![s] = message]
  /\ pc' = [pc EXCEPT ![s] = to]
Goto(s, to) == pc' = [pc EXCEPT ![s] = to]

\* afterResponses(): the synchronous check, then the chain is registered.
afterResponsesUnchecked(s) ==
  /\ pc[s] = "config"
  /\ Predecessor(s) # Null => pc[Predecessor(s)] \notin {"config", "threw"}
  /\ thrown' = ""
  /\ Goto(s, "init")
  /\ UNCHANGED <<series, arrays, call, execVars>>
afterResponses(s) ==
  /\ pc[s] = "config"
  /\ Predecessor(s) # Null => pc[Predecessor(s)] \notin {"config", "threw"}
  /\ IF NothingToDo(series[s])
       THEN /\ thrown' = "route(), mount(), and/or request() required"
            /\ Goto(s, "threw")
       ELSE /\ thrown' = ""
            /\ Goto(s, "init")
  /\ UNCHANGED <<series, arrays, call, execVars>>

\* The callback of _initialPromise(), run when the previous promise (or
\* Promise.resolve({})) is fulfilled; a rejected previous promise skips it.
AcquiredContextNoResponses(s, component) ==
  [InitialContext EXCEPT !.inProgress = TRUE, !.previousHttp = http,
     !.component = component]
AcquiredContextNoComponent(s, component) ==
  [InitialContext EXCEPT !.inProgress = TRUE, !.previousHttp = http,
     !.responseWithoutRequest = (Len(Responses(s)) # 0)]
AcquiredContext(s, component) ==
  [InitialContext EXCEPT !.inProgress = TRUE, !.previousHttp = http,
     !.component = component,
     !.responseWithoutRequest = (Len(Responses(s)) # 0)]
initialPromiseBeforeCleanUp(s) ==
  /\ pc[s] = "init"
  /\ Predecessor(s) # Null => pc[Predecessor(s)] \in {"cleanUp", "done"}
  /\ IF Predecessor(s) # Null /\ err[Predecessor(s)] # ""
       THEN /\ Rejected(s, err[Predecessor(s)], "wait")
            /\ UNCHANGED <<ctx, inProgress, http>>
     ELSE IF inProgress
       THEN /\ Rejected(s, "another series is in progress", "wait")
            /\ UNCHANGED <<ctx, inProgress, http>>
       ELSE /\ inProgress' = TRUE
            /\ ctx' = [ctx EXCEPT ![s] = AcquiredContext(s,
                 IF Predecessor(s) = Null THEN Null
                 ELSE ctx[Predecessor(s)].component)]
            /\ http' = s
            /\ Goto(s, "beforeEachNav")
            /\ UNCHANGED err
  /\ UNCHANGED <<series, arrays, call, thrown, lastNavigationWasConfirmed,
                 completion, appVars>>
initialPromiseAfterRejection(s) ==
  /\ pc[s] = "init"
  /\ Predecessor(s) # Null => pc[Predecessor(s)] = "done"
  /\ IF FALSE
       THEN /\ Rejected(s, err[Predecessor(s)], "wait")
            /\ UNCHANGED <<ctx, inProgress, http>>
     ELSE IF inProgress
       THEN /\ Rejected(s, "another series is in progress", "wait")
            /\ UNCHANGED <<ctx, inProgress, http>>
       ELSE /\ inProgress' = TRUE
            /\ ctx' = [ctx EXCEPT ![s] = AcquiredContext(s,
                 IF Predecessor(s) = Null THEN Null
                 ELSE ctx[Predecessor(s)].component)]
            /\ http' = s
            /\ Goto(s, "beforeEachNav")
            /\ UNCHANGED err
  /\ UNCHANGED <<series, arrays, call, thrown, lastNavigationWasConfirmed,
                 completion, appVars>>
_initialPromise(s) ==
  /\ pc[s] = "init"
  /\ Predecessor(s) # Null => pc[Predecessor(s)] = "done"
  /\ IF Predecessor(s) # Null /\ err[Predecessor(s)] # ""
       THEN /\ Rejected(s, err[Predecessor(s)], "wait")
            /\ UNCHANGED <<ctx, inProgress, http>>
     ELSE IF inProgress
       THEN /\ Rejected(s, "another series is in progress", "wait")
            /\ UNCHANGED <<ctx, inProgress, http>>
       ELSE /\ inProgress' = TRUE
            /\ ctx' = [ctx EXCEPT ![s] = AcquiredContext(s,
                 IF Predecessor(s) = Null THEN Null
                 ELSE ctx[Predecessor(s)].component)]
            /\ http' = s
            /\ Goto(s, "beforeEachNav")
            /\ UNCHANGED err
  /\ UNCHANGED <<series, arrays, call, thrown, lastNavigationWasConfirmed,
                 completion, appVars>>

\* .then(() => { if (this._beforeEachNavGuard == null) return;
\*               beforeEachNav(...) })
installBeforeEachNav(s) ==
  /\ pc[s] = "beforeEachNav"
  /\ ctx' = [ctx EXCEPT ![s].guardInstalled =
               (series[s].beforeEachNavGuard # Null)]
  /\ Goto(s, "navigateAndMount")
  /\ UNCHANGED <<series, arrays, call, thrown, err, inProgress, http,
                 lastNavigationWasConfirmed, completion, appVars>>

\* The route router.push(this._location) leads to, and the route a guard
\* that redirects leads to instead.
RouteOf(location) == location + 1
RedirectRoute == 4

\* _navigateAndMount(): what it does, in its order.  With a location it calls
\* router.push() first, without waiting; with a mount option it then calls
\* this._mount(), which returns the mounted component or throws.
NavigateAndMountEvents(m, mounted) ==
  (IF m.location # Null THEN <<"push">> ELSE <<>>)
    \o (IF m.mount # Null /\ mounted THEN <<"mount">> ELSE <<>>)

\* _navigateAndMount() that returns undefined.
navigateAndMountWithoutWaiting(s) ==
  /\ pc[s] = "navigateAndMount"
  /\ \E mounted \in (IF series[s].mount # Null THEN BOOLEAN ELSE {TRUE}) :
       /\ ctx' = [ctx EXCEPT
            ![s].component =
               IF series[s].mount # Null /\ mounted THEN s ELSE @,
            ![s].events = @ \o NavigateAndMountEvents(series[s], mounted)]
       /\ IF mounted
            THEN /\ Goto(s, "settle")
                 /\ UNCHANGED err
            ELSE Rejected(s, "mount() threw an error", "wait")
  /\ UNCHANGED <<series, arrays, call, thrown, inProgress, http,
                 lastNavigationWasConfirmed, completion, appVars>>

\* The promise _navigateAndMount() returns is the promise of _navigate() if
\* there is a location; an error this._mount() throws rejects the step, and
\* the navigation already pushed goes on in the router.
_navigateAndMount(s) ==
  /\ pc[s] = "navigateAndMount"
  /\ \E mounted \in (IF series[s].mount # Null THEN BOOLEAN ELSE {TRUE}) :
       /\ ctx' = [ctx EXCEPT
            ![s].component =
               IF series[s].mount # Null /\ mounted THEN s ELSE @,
            ![s].events = @ \o NavigateAndMountEvents(series[s], mounted)]
       /\ IF mounted
            THEN /\ Goto(s, IF series[s].location # Null THEN "navigating"
                            ELSE "settle")
                 /\ UNCHANGED err
            ELSE Rejected(s, "mount() threw an error", "wait")
  /\ UNCHANGED <<series, arrays, call, thrown, inProgress, http,
                 lastNavigationWasConfirmed, completion, appVars>>

\* The guards registered with beforeEachNav() run on every navigation:
\* _tryBeforeEachNav(to, from) calls the guard of a series in progress that
\* has not thrown yet with this._component, to and from, and keeps the error
\* of a guard that throws (`throwing`).
GuardsCalledAfterSeries ==
  {g \in Series : /\ ctx[g].guardInstalled
                  /\ ~ctx[g].errorFromBeforeEachNav}
GuardsCalled ==
  {g \in Series : /\ ctx[g].guardInstalled
                  /\ ctx[g].inProgress
                  /\ ~ctx[g].errorFromBeforeEachNav}
GuardCall(component, to, from) ==
  [component |-> component, to |-> to, from |-> from]
_tryBeforeEachNav(throwing, to, from) ==
  [g \in Series |->
     IF g \in GuardsCalled
       THEN [ctx[g] EXCEPT
               !.guardCalls = Append(@, GuardCall(ctx[g].component, to, from)),
               !.errorFromBeforeEachNav = (g \in throwing)]
       ELSE ctx[g]]

\* A navigation of the router to route `to` that series s pushed or that a
\* guard redirected to: the guards run, and the router confirms or aborts.
Navigated(s, throwing, to, event) ==
  [_tryBeforeEachNav(throwing, to, store.currentRoute) EXCEPT
     ![s].events = Append(@, event)]

\* _navigate(): router.push(location, resolve, onAbort).  The router confirms
\* the navigation (onComplete) ...
navigationConfirmed(s) ==
  /\ pc[s] = "navigating"
  /\ \E throwing \in SUBSET GuardsCalled :
       ctx' = Navigated(s, throwing, RouteOf(series[s].location), "confirmed")
  /\ lastNavigationWasConfirmed' = TRUE
  /\ store' = [store EXCEPT !.currentRoute = RouteOf(series[s].location)]
  /\ Goto(s, "settle")
  /\ UNCHANGED <<series, arrays, call, thrown, err, inProgress, http,
                 completion, requestMixin, lifecycle>>

\* ... or aborts it (onAbort), typically because a guard redirected; then
\* waitUntil() polls the store until the last navigation was confirmed.
navigationAborted(s) ==
  /\ pc[s] = "navigating"
  /\ \E throwing \in SUBSET GuardsCalled :
       ctx' = Navigated(s, throwing, RouteOf(series[s].location), "aborted")
  /\ lastNavigationWasConfirmed' = FALSE
  /\ Goto(s, "redirected")
  /\ UNCHANGED <<series, arrays, call, thrown, err, inProgress, http,
                 completion, appVars>>

redirectConfirmed(s) ==
  /\ pc[s] = "redirected"
  /\ ~lastNavigationWasConfirmed
  /\ \E throwing \in SUBSET GuardsCalled :
       ctx' = Navigated(s, throwing, RedirectRoute, "confirmed")
  /\ lastNavigationWasConfirmed' = TRUE
  /\ store' = [store EXCEPT !.currentRoute = RedirectRoute]
  /\ UNCHANGED <<series, arrays, call, thrown, pc, err, inProgress, http,
                 completion, requestMixin, lifecycle>>

resolveOnAbort(s) ==
  /\ pc[s] = "redirected"
  /\ Goto(s, "settle")
  /\ UNCHANGED <<series, arrays, call, thrown, err, ctx, inProgress, http,
                 lastNavigationWasConfirmed, completion, appVars>>
waitUntilConfirmed(s) ==
  /\ pc[s] = "redirected"
  /\ lastNavigationWasConfirmed
  /\ Goto(s, "settle")
  /\ UNCHANGED <<series, arrays, call, thrown, err, ctx, inProgress, http,
                 lastNavigationWasConfirmed, completion, appVars>>

\* The navigation of a series whose this._mount() threw after router.push():
\* nothing waits for it, and the router confirms it unless a later series
\* has pushed another navigation.
Abandoned(s) == ctx[s].events = <<"push">> /\ pc[s] # "navigating"
navigationAfterMountThrew(s) ==
  /\ Abandoned(s)
  /\ \A q \in Series : q > s => ctx[q].events = <<>>
  /\ \E throwing \in SUBSET GuardsCalled :
       ctx' = Navigated(s, throwing, RouteOf(series[s].location), "confirmed")
  /\ lastNavigationWasConfirmed' = TRUE
  /\ store' = [store EXCEPT !.currentRoute = RouteOf(series[s].location)]
  /\ UNCHANGED <<series, arrays, call, thrown, pc, err, inProgress, http,
                 completion, requestMixin, lifecycle>>

\* .then(() => (this._location && this._request != null ? wait() : undefined))
waitForAsyncComponents(s) ==
  /\ pc[s] = "settle"
  /\ Goto(s, "request")
  /\ UNCHANGED <<series, arrays, call, thrown, err, ctx, inProgress, http,
                 lastNavigationWasConfirmed, completion, appVars>>

\* _checkStateBeforeRequest() throws if a request has been logged.
checkStateBeforeRequestSkipped(s) == TRUE
_checkStateBeforeRequest(s) == ctx[s].requestResponseLog = <<>>

\* .then(() => { if (this._request == null) return undefined;
\*               this._checkStateBeforeRequest();
\*               return this._request(this._component); })
runRequest(s) ==
  /\ pc[s] = "request"
  /\ IF series[s].request = Null
       THEN Goto(s, "wait") /\ UNCHANGED err
     ELSE IF ~_checkStateBeforeRequest(s)
       THEN Rejected(s,
              "a request was sent before the request() callback was run",
              "wait")
       ELSE Goto(s, "requesting") /\ UNCHANGED err
  /\ UNCHANGED <<series, arrays, call, thrown, ctx, inProgress, http,
                 lastNavigationWasConfirmed, completion, appVars>>

\* The request() callback returns, or the promise it returned settles.
requestSettled(s) ==
  /\ pc[s] = "requesting"
  /\ \E threw \in BOOLEAN :
       IF threw THEN Rejected(s, "request() callback threw an error", "wait")
       ELSE Goto(s, "wait") /\ UNCHANGED err
  /\ UNCHANGED <<series, arrays, call, thrown, ctx, inProgress, http,
                 lastNavigationWasConfirmed, completion, appVars>>

\* The responses that are in flight: requests the stub accepted whose promise
\* has not settled.
InFlight(s) ==
  {i \in 1..Len(ctx[s].chain) : ctx[s].chain[i].settled = "pending"}

\* .finally(wait): "Wait for any responses to be processed."  pollWork is
\* not given, so the finally() that follows returns undefined.
waitOneTurn(s) ==
  /\ pc[s] = "wait"
  /\ Goto(s, "restoreHttp")
  /\ UNCHANGED <<series, arrays, call, thrown, err, ctx, inProgress, http,
                 lastNavigationWasConfirmed, completion, appVars>>
wait(s) ==
  /\ pc[s] = "wait"
  /\ InFlight(s) = {}
  /\ Goto(s, "restoreHttp")
  /\ UNCHANGED <<series, arrays, call, thrown, err, ctx, inProgress, http,
                 lastNavigationWasConfirmed, completion, appVars>>

\* .finally(() => this._restoreHttp()), then the then() callbacks that follow
\* if the promise is fulfilled, else the last finally().
restoreHttpThenCallback(s) ==
  /\ pc[s] = "restoreHttp"
  /\ http' = IF ctx[s].inProgress THEN ctx[s].previousHttp ELSE http
  /\ Goto(s, IF err[s] = "" THEN "callback" ELSE "cleanUp")
  /\ UNCHANGED <<series, arrays, call, thrown, err, ctx, inProgress,
                 lastNavigationWasConfirmed, completion, appVars>>
_restoreHttp(s) ==
  /\ pc[s] = "restoreHttp"
  /\ http' = IF ctx[s].inProgress THEN ctx[s].previousHttp ELSE http
  /\ Goto(s, IF err[s] = "" THEN "checkState" ELSE "cleanUp")
  /\ UNCHANGED <<series, arrays, call, thrown, err, ctx, inProgress,
                 lastNavigationWasConfirmed, completion, appVars>>

\* The error _checkStateAfterWait() throws, "" if it returns.
StateAfterWaitWithoutHooks(c) ==
  IF c.errorFromBeforeEachNav THEN "beforeEachNav() callback threw an error"
  ELSE IF c.errorFromResponse # Null
    THEN "a response callback threw an error"
  ELSE IF c.requestWithoutResponse
    THEN "request without response: no response specified for request"
  ELSE IF c.responseWithoutRequest
    THEN "response without request: not all responses were requested"
  ELSE ""
StateAfterWaitRequestsOnly(c) ==
  IF c.errorFromBeforeEachNav THEN "beforeEachNav() callback threw an error"
  ELSE IF c.errorFromBeforeAnyResponse
    THEN "beforeAnyResponse() callback threw an error"
  ELSE IF c.errorFromBeforeEachResponse
    THEN "beforeEachResponse() callback threw an error"
  ELSE IF c.errorFromResponse # Null
    THEN "a response callback threw an error"
  ELSE IF c.requestWithoutResponse
    THEN "request without response: no response specified for request"
  ELSE ""
StateAfterWaitCardinalityFirst(c) ==
  IF c.requestWithoutResponse
    THEN "request without response: no response specified for request"
  ELSE IF c.responseWithoutRequest
    THEN "response without request: not all responses were requested"
  ELSE IF c.errorFromBeforeEachNav
    THEN "beforeEachNav() callback threw an error"
  ELSE IF c.errorFromBeforeAnyResponse
    THEN "beforeAnyResponse() callback threw an error"
  ELSE IF c.errorFromBeforeEachResponse
    THEN "beforeEachResponse() callback threw an error"
  ELSE IF c.errorFromResponse # Null
    THEN "a response callback threw an error"
  ELSE ""
StateAfterWait(c) ==
  IF c.errorFromBeforeEachNav THEN "beforeEachNav() callback threw an error"
  ELSE IF c.errorFromBeforeAnyResponse
    THEN "beforeAnyResponse() callback threw an error"
  ELSE IF c.errorFromBeforeEachResponse
    THEN "beforeEachResponse() callback threw an error"
  ELSE IF c.errorFromResponse # Null
    THEN "a response callback threw an error"
  ELSE IF c.requestWithoutResponse
    THEN "request without response: no response specified for request"
  ELSE IF c.responseWithoutRequest
    THEN "response without request: not all responses were requested"
  ELSE ""

checkStateAfterWaitSkipped(s) ==
  /\ pc[s] = "checkState"
  /\ Goto(s, "callback")
  /\ UNCHANGED <<series, arrays, call, thrown, err, ctx, inProgress, http,
                 lastNavigationWasConfirmed, completion, appVars>>
_checkStateAfterWait(s) ==
  /\ pc[s] = "checkState"
  /\ IF StateAfterWait(ctx[s]) # ""
       THEN Rejected(s, StateAfterWait(ctx[s]), "cleanUp")
       ELSE Goto(s, "callback") /\ UNCHANGED err
  /\ UNCHANGED <<series, arrays, call, thrown, ctx, inProgress, http,
                 lastNavigationWasConfirmed, completion, appVars>>

\* .then(() => callback(this._component)): the callback returns or throws;
\* the callback of complete(), component => component, returns.
afterResponsesCallback(s) ==
  /\ pc[s] = "callback"
  /\ ctx' = [ctx EXCEPT ![s].callbackCalls = @ + 1]
  /\ \E threw \in (IF completion[s] = "identity" THEN {FALSE} ELSE BOOLEAN) :
       IF threw
         THEN Rejected(s, "afterResponses() callback threw an error", "cleanUp")
         ELSE Goto(s, "cleanUp") /\ UNCHANGED err
  /\ UNCHANGED <<series, arrays, call, thrown, inProgress, http,
                 lastNavigationWasConfirmed, completion, appVars>>

\* .finally(() => this._cleanUpAfterResponses()); the promise of the series
\* settles: fulfilled with { component, result } or rejected with err[s].
cleanUpIfFulfilled(s) ==
  /\ pc[s] = "cleanUp"
  /\ ctx' = [ctx EXCEPT ![s].inProgress = IF err[s] = "" THEN FALSE ELSE @]
  /\ inProgress' = IF err[s] = "" THEN FALSE ELSE inProgress
  /\ Goto(s, "done")
  /\ UNCHANGED <<series, arrays, call, thrown, err, http,
                 lastNavigationWasConfirmed, completion, appVars>>
_cleanUpAfterResponses(s) ==
  /\ pc[s] = "cleanUp"
  /\ ctx' = [ctx EXCEPT ![s].inProgress = FALSE]
  /\ inProgress' = FALSE
  /\ Goto(s, "done")
  /\ UNCHANGED <<series, arrays, call, thrown, err, http,
                 lastNavigationWasConfirmed, completion, appVars>>

----------------------------------------------------------------------------
(* The stub that _http() returns, and this._responsesPromise.               *)

\* The application sends requests from mount(), a navigation, the request()
\* callback, a hook or the handling of a response, in a series in progress.
Sending ==
  {"navigating", "redirected", "settle", "request", "requesting", "wait"}
ApplicationIsActive ==
  \E q \in Series : ctx[q].inProgress /\ pc[q] \in Sending

\* One link of this._responsesPromise: the promise returned for an accepted
\* request.  `callback` is the index of its response callback (count + 1),
\* `request` the number of the request it answers, `previous` the promise it
\* is chained on (0: the Promise.resolve() of _initialPromise()).
LinkNotChained(callbackIndex, n, previous) ==
  [callback |-> callbackIndex, request |-> n, previous |-> 0,
   phase |-> "chained", settled |-> "pending", response |-> NoResponse]
Link(callbackIndex, n, previous) ==
  [callback |-> callbackIndex, request |-> n, previous |-> previous,
   phase |-> "chained", settled |-> "pending", response |-> NoResponse]

\* (config) => { ... }: the stub installed as $http receives a request.
httpWithoutFlag(s) ==
  /\ http = s
  /\ ApplicationIsActive
  /\ Cardinality(Requests(s)) < MaxRequests
  /\ LET c == ctx[s]
         n == Cardinality(Requests(s)) + 1
         logged == Append(c.requestResponseLog, LogRequest(n))
     IN  IF c.count = Len(Responses(s))
           THEN ctx' = [ctx EXCEPT ![s] =
                  [c EXCEPT !.requestResponseLog = logged,
                            !.requestWithoutResponse = @]]
           ELSE ctx' = [ctx EXCEPT ![s] =
                  [c EXCEPT !.requestResponseLog = logged,
                            !.responseWithoutRequest =
                               IF c.count = Len(Responses(s)) - 1 THEN FALSE
                               ELSE @,
                            !.count = @ + 1,
                            !.chain = Append(@,
                               Link(c.count + 1, n, c.responsesPromise)),
                            !.responsesPromise = Len(c.chain) + 1]]
  /\ UNCHANGED <<series, arrays, call, thrown, pc, err, inProgress, http,
                 lastNavigationWasConfirmed, completion, appVars>>
httpLogsAccepted(s) ==
  /\ http = s
  /\ ApplicationIsActive
  /\ Cardinality(Requests(s)) < MaxRequests
  /\ LET c == ctx[s]
         n == Cardinality(Requests(s)) + 1
         logged == Append(c.requestResponseLog, LogRequest(n))
     IN  IF c.count = Len(Responses(s))
           THEN ctx' = [ctx EXCEPT ![s] =
                  [c EXCEPT !.requestWithoutResponse = TRUE]]
           ELSE ctx' = [ctx EXCEPT ![s] =
                  [c EXCEPT !.requestResponseLog = logged,
                            !.responseWithoutRequest =
                               IF c.count = Len(Responses(s)) - 1 THEN FALSE
                               ELSE @,
                            !.count = @ + 1,
                            !.chain = Append(@,
                               Link(c.count + 1, n, c.responsesPromise)),
                            !.responsesPromise = Len(c.chain) + 1]]
  /\ UNCHANGED <<series, arrays, call, thrown, pc, err, inProgress, http,
                 lastNavigationWasConfirmed, completion, appVars>>
httpClearsFlagOnFirstRequest(s) ==
  /\ http = s
  /\ ApplicationIsActive
  /\ Cardinality(Requests(s)) < MaxRequests
  /\ LET c == ctx[s]
         n == Cardinality(Requests(s)) + 1
         logged == Append(c.requestResponseLog, LogRequest(n))
     IN  IF c.count = Len(Responses(s))
           THEN ctx' = [ctx EXCEPT ![s] =
                  [c EXCEPT !.requestResponseLog = logged,
                            !.requestWithoutResponse = TRUE]]
           ELSE ctx' = [ctx EXCEPT ![s] =
                  [c EXCEPT !.requestResponseLog = logged,
                            !.responseWithoutRequest =
                               IF c.count = 0 THEN FALSE
                               ELSE @,
                            !.count = @ + 1,
                            !.chain = Append(@,
                               Link(c.count + 1, n, c.responsesPromise)),
                            !.responsesPromise = Len(c.chain) + 1]]
  /\ UNCHANGED <<series, arrays, call, thrown, pc, err, inProgress, http,
                 lastNavigationWasConfirmed, completion, appVars>>
httpReusesCallback(s) ==
  /\ http = s
  /\ ApplicationIsActive
  /\ Cardinality(Requests(s)) < MaxRequests
  /\ LET c == ctx[s]
         n == Cardinality(Requests(s)) + 1
         logged == Append(c.requestResponseLog, LogRequest(n))
     IN  IF c.count = Len(Responses(s))
           THEN ctx' = [ctx EXCEPT ![s] =
                  [c EXCEPT !.requestResponseLog = logged,
                            !.requestWithoutResponse = TRUE]]
           ELSE ctx' = [ctx EXCEPT ![s] =
                  [c EXCEPT !.requestResponseLog = logged,
                            !.responseWithoutRequest =
                               IF c.count = Len(Responses(s)) - 1 THEN FALSE
                               ELSE @,
                            !.count = @ + 1,
                            !.chain = Append(@,
                               Link(1, n, c.responsesPromise)),
                            !.responsesPromise = Len(c.chain) + 1]]
  /\ UNCHANGED <<series, arrays, call, thrown, pc, err, inProgress, http,
                 lastNavigationWasConfirmed, completion, appVars>>
_http(s) ==
  /\ http = s
  /\ ApplicationIsActive
  /\ Cardinality(Requests(s)) < MaxRequests
  /\ LET c == ctx[s]
         n == Cardinality(Requests(s)) + 1
         logged == Append(c.requestResponseLog, LogRequest(n))
     IN  IF c.count = Len(Responses(s))
           THEN ctx' = [ctx EXCEPT ![s] =
                  [c EXCEPT !.requestResponseLog = logged,
                            !.requestWithoutResponse = TRUE]]
           ELSE ctx' = [ctx EXCEPT ![s] =
                  [c EXCEPT !.requestResponseLog = logged,
                            !.responseWithoutRequest =
                               IF c.count = Len(Responses(s)) - 1 THEN FALSE
                               ELSE @,
                            !.count = @ + 1,
                            !.chain = Append(@,
                               Link(c.count + 1, n, c.responsesPromise)),
                            !.responsesPromise = Len(c.chain) + 1]]
  /\ UNCHANGED <<series, arrays, call, thrown, pc, err, inProgress, http,
                 lastNavigationWasConfirmed, completion, appVars>>

\* The promise a link is chained on has settled (.catch(noop) makes the rest
\* of the link run whether it was fulfilled or rejected).
PreviousSettled(s, i) ==
  IF ctx[s].chain[i].previous = 0 THEN TRUE
  ELSE ctx[s].chain[ctx[s].chain[i].previous].settled # "pending"

Links(s) == 1..Len(ctx[s].chain)

\* index === 0 && this._beforeAnyResponse != null
RunsBeforeAnyResponseForEach(s, i) == series[s].beforeAnyResponse # Null
RunsBeforeAnyResponse(s, i) ==
  ctx[s].chain[i].callback = 1 /\ series[s].beforeAnyResponse # Null

SetPhase(s, i, phase) ==
  [ctx[s] EXCEPT !.chain[i].phase = phase]

\* A call of this._beforeAnyResponse(component) or of
\* this._beforeEachResponse(component, config, index): `request` is the
\* number of the request the config belongs to (0: no config is passed).
HookCall(hook, n, index) == [hook |-> hook, request |-> n, index |-> index]

\* _tryBeforeAnyResponse(): the hook is called ...
_tryBeforeAnyResponse(s, i) ==
  /\ i \in Links(s)
  /\ ctx[s].chain[i].phase = "chained"
  /\ PreviousSettled(s, i)
  /\ RunsBeforeAnyResponse(s, i)
  /\ ctx' = [ctx EXCEPT ![s] =
       [SetPhase(s, i, "beforeAnyResponse") EXCEPT
          !.hookCalls = Append(@, HookCall("beforeAnyResponse", 0, 0))]]
  /\ UNCHANGED <<series, arrays, call, thrown, pc, err, inProgress, http,
                 lastNavigationWasConfirmed, completion, appVars>>

\* ... and returns, or the promise it returned settles; an error is kept.
beforeAnyResponseSettled(s, i) ==
  /\ i \in Links(s)
  /\ ctx[s].chain[i].phase = "beforeAnyResponse"
  /\ \E threw \in BOOLEAN :
       ctx' = [ctx EXCEPT ![s] =
         [SetPhase(s, i, "afterAny") EXCEPT
            !.errorFromBeforeAnyResponse = IF threw THEN TRUE ELSE @]]
  /\ UNCHANGED <<series, arrays, call, thrown, pc, err, inProgress, http,
                 lastNavigationWasConfirmed, completion, appVars>>

\* The link has passed the step of beforeAnyResponse().
AfterAny(s, i) ==
  \/ ctx[s].chain[i].phase = "afterAny"
  \/ /\ ctx[s].chain[i].phase = "chained"
     /\ PreviousSettled(s, i)
     /\ ~RunsBeforeAnyResponse(s, i)

\* _tryBeforeEachResponse(): the hook is called unless it threw for an
\* earlier response ...
tryBeforeEachResponseAlways(s, i) ==
  /\ i \in Links(s)
  /\ AfterAny(s, i)
  /\ series[s].beforeEachResponse # Null
  /\ ctx' = [ctx EXCEPT ![s] =
       IF FALSE
         THEN SetPhase(s, i, "afterEach")
         ELSE [SetPhase(s, i, "beforeEachResponse") EXCEPT
                 !.hookCalls =
                    Append(@, HookCall("beforeEachResponse",
                                       ctx[s].chain[i].request,
                                       ctx[s].chain[i].callback - 1))]]
  /\ UNCHANGED <<series, arrays, call, thrown, pc, err, inProgress, http,
                 lastNavigationWasConfirmed, completion, appVars>>
_tryBeforeEachResponse(s, i) ==
  /\ i \in Links(s)
  /\ AfterAny(s, i)
  /\ series[s].beforeEachResponse # Null
  /\ ctx' = [ctx EXCEPT ![s] =
       IF ctx[s].errorFromBeforeEachResponse
         THEN SetPhase(s, i, "afterEach")
         ELSE [SetPhase(s, i, "beforeEachResponse") EXCEPT
                 !.hookCalls =
                    Append(@, HookCall("beforeEachResponse",
                                       ctx[s].chain[i].request,
                                       ctx[s].chain[i].callback - 1))]]
  /\ UNCHANGED <<series, arrays, call, thrown, pc, err, inProgress, http,
                 lastNavigationWasConfirmed, completion, appVars>>

\* ... and returns, or the promise it returned settles; an error is kept.
beforeEachResponseSettled(s, i) ==
  /\ i \in Links(s)
  /\ ctx[s].chain[i].phase = "beforeEachResponse"
  /\ \E threw \in BOOLEAN :
       ctx' = [ctx EXCEPT ![s] =
         [SetPhase(s, i, "afterEach") EXCEPT
            !.errorFromBeforeEachResponse = IF threw THEN TRUE ELSE @]]
  /\ UNCHANGED <<series, arrays, call, thrown, pc, err, inProgress, http,
                 lastNavigationWasConfirmed, completion, appVars>>

AfterEach(s, i) ==
  \/ ctx[s].chain[i].phase = "afterEach"
  \/ AfterAny(s, i) /\ series[s].beforeEachResponse = Null

\* new Promise((resolve, reject) => { ... }): the response callback is
\* called; the response is logged and the promise of the request settles.
RespondedUpTo300(link, callback) ==
  IF callback.ret = "throw"
    THEN [link EXCEPT !.phase = "responded", !.settled = "rejected"]
    ELSE [link EXCEPT !.phase = "responded",
            !.response = Wrapped(callback),
            !.settled = IF Wrapped(callback).status >= 200
                           /\ Wrapped(callback).status <= 300
                        THEN "fulfilled" ELSE "rejected"]
Responded(link, callback) ==
  IF callback.ret = "throw"
    THEN [link EXCEPT !.phase = "responded", !.settled = "rejected"]
    ELSE [link EXCEPT !.phase = "responded",
            !.response = Wrapped(callback),
            !.settled = IF Wrapped(callback).status >= 200
                           /\ Wrapped(callback).status < 300
                        THEN "fulfilled" ELSE "rejected"]

\* errorFromResponse is the exception of the first response callback that
\* threw, written as the number of the request it was to answer.
respondToRequestKeepsLast(s, i) ==
  /\ i \in Links(s)
  /\ AfterEach(s, i)
  /\ LET c == ctx[s]
         responseCallback == Responses(s)[c.chain[i].callback]
     IN  ctx' = [ctx EXCEPT ![s] =
           [c EXCEPT
              !.chain[i] = Responded(@, responseCallback),
              !.errorFromResponse =
                 IF responseCallback.ret = "throw" THEN c.chain[i].request
                 ELSE @,
              !.requestResponseLog =
                 IF responseCallback.ret = "throw" THEN @
                 ELSE Append(@, LogResponse(Wrapped(responseCallback)))]]
  /\ UNCHANGED <<series, arrays, call, thrown, pc, err, inProgress, http,
                 lastNavigationWasConfirmed, completion, appVars>>
respondToRequestAfterFailure(s, i) ==
  /\ i \in Links(s)
  /\ AfterEach(s, i)
  /\ LET c == ctx[s]
         responseCallback == Responses(s)[c.chain[i].callback]
     IN  ctx' = [ctx EXCEPT ![s] =
           [c EXCEPT
              !.chain[i] =
                 IF c.chain[i].previous # 0
                    /\ c.chain[c.chain[i].previous].settled = "rejected"
                   THEN [@ EXCEPT !.phase = "responded",
                                  !.settled = "rejected"]
                   ELSE Responded(@, responseCallback),
              !.errorFromResponse =
                 IF responseCallback.ret = "throw" /\ @ = Null
                   THEN c.chain[i].request
                 ELSE @,
              !.requestResponseLog =
                 IF responseCallback.ret = "throw" THEN @
                 ELSE Append(@, LogResponse(Wrapped(responseCallback)))]]
  /\ UNCHANGED <<series, arrays, call, thrown, pc, err, inProgress, http,
                 lastNavigationWasConfirmed, completion, appVars>>
respondToRequest(s, i) ==
  /\ i \in Links(s)
  /\ AfterEach(s, i)
  /\ LET c == ctx[s]
         responseCallback == Responses(s)[c.chain[i].callback]
     IN  ctx' = [ctx EXCEPT ![s] =
           [c EXCEPT
              !.chain[i] = Responded(@, responseCallback),
              !.errorFromResponse =
                 IF responseCallback.ret = "throw" /\ @ = Null
                   THEN c.chain[i].request
                 ELSE @,
              !.requestResponseLog =
                 IF responseCallback.ret = "throw" THEN @
                 ELSE Append(@, LogResponse(Wrapped(responseCallback)))]]
  /\ UNCHANGED <<series, arrays, call, thrown, pc, err, inProgress, http,
                 lastNavigationWasConfirmed, completion, appVars>>

----------------------------------------------------------------------------
(* One series: every configuration of mount, request, hooks and responses   *)
(* the builder can produce for a series that does not navigate.             *)

Flags == {Null, 1}

\* The callbacks respond(), respondWithData(), respondWithSuccess() and
\* respondWithProblem() queue.
\* Codes at the edges of the range of statuses that fulfill a request:
\* 199.9, 299.9 and 300.
EdgeCodes == {1999, 2999, 3000}
Queued ==
  ResponseCallbacks
    \cup {respondWithProblemCallback(p) : p \in ProblemArguments}
    \cup {respondWithProblemCallback(Number(c)) : c \in EdgeCodes}

ResponseArrays == UNION {[1..n -> Queued] : n \in 0..MaxResponses}

Configurations ==
  [previousPromise : {Null}, location : {Null}, beforeEachNavGuard : {Null},
   mount : Flags, request : Flags, responses : {1},
   beforeAnyResponse : Flags, beforeEachResponse : Flags]

\* afterResponses(callback) is given a callback of the test; complete() is
\* afterResponses(component => component).
Completions == {"callback", "identity"}

InitExecution ==
  /\ completion = [s \in Series |-> "callback"]
  /\ call = NoCall
  /\ thrown = ""
  /\ pc = [s \in Series |-> "config"]
  /\ err = [s \in Series |-> ""]
  /\ ctx = [s \in Series |-> InitialContext]
  /\ inProgress = FALSE
  /\ http = OriginalHttp
  /\ lastNavigationWasConfirmed = FALSE
  /\ NoApplication

Init ==
  /\ series \in {<<m>> : m \in Configurations}
  /\ arrays \in {<<a>> : a \in ResponseArrays}
  /\ InitExecution

Next ==
  \/ \E s \in Series : afterResponses(s)
  \/ \E s \in Series : _initialPromise(s)
  \/ \E s \in Series : installBeforeEachNav(s)
  \/ \E s \in Series : _navigateAndMount(s)
  \/ \E s \in Series : waitForAsyncComponents(s)
  \/ \E s \in Series : runRequest(s)
  \/ \E s \in Series : requestSettled(s)
  \/ \E s \in Series : wait(s)
  \/ \E s \in Series : _restoreHttp(s)
  \/ \E s \in Series : _checkStateAfterWait(s)
  \/ \E s \in Series : afterResponsesCallback(s)
  \/ \E s \in Series : _cleanUpAfterResponses(s)
  \/ \E s \in Series : _http(s)
  \/ \E s \in Series, i \in 1..MaxRequests : _tryBeforeAnyResponse(s, i)
  \/ \E s \in Series, i \in 1..MaxRequests : beforeAnyResponseSettled(s, i)
  \/ \E s \in Series, i \in 1..MaxRequests : _tryBeforeEachResponse(s, i)
  \/ \E s \in Series, i \in 1..MaxRequests : beforeEachResponseSettled(s, i)
  \/ \E s \in Series, i \in 1..MaxRequests : respondToRequest(s, i)

Spec == Init /\ [][Next]_vars

----------------------------------------------------------------------------
(* Several series.  Each runs a request() callback that sends no request,   *)
(* so a series with a queued response fails in _checkStateAfterWait(); a    *)
(* series may be chained on the series before it.                           *)

SeriesConfigurations(s) ==
  [previousPromise : {Null} \cup ({s - 1} \ {0}), location : {Null},
   beforeEachNavGuard : {Null}, mount : {Null}, request : {1},
   responses : {s}, beforeAnyResponse : {Null}, beforeEachResponse : {Null}]

SeriesResponseArrays == {<<>>, <<PlainValue(1)>>}

InitSeries ==
  /\ series \in {c \in [1..NumSeries ->
                         UNION {SeriesConfigurations(s) : s \in 1..NumSeries}] :
                   \A s \in 1..NumSeries : c[s] \in SeriesConfigurations(s)}
  /\ arrays \in [1..NumSeries -> SeriesResponseArrays]
  /\ InitExecution

NextSeries ==
  \/ \E s \in Series : afterResponses(s)
  \/ \E s \in Series : _initialPromise(s)
  \/ \E s \in Series : installBeforeEachNav(s)
  \/ \E s \in Series : _navigateAndMount(s)
  \/ \E s \in Series : waitForAsyncComponents(s)
  \/ \E s \in Series : runRequest(s)
  \/ \E s \in Series : requestSettled(s)
  \/ \E s \in Series : wait(s)
  \/ \E s \in Series : _restoreHttp(s)
  \/ \E s \in Series : _checkStateAfterWait(s)
  \/ \E s \in Series : afterResponsesCallback(s)
  \/ \E s \in Series : _cleanUpAfterResponses(s)

SpecSeries == InitSeries /\ [][NextSeries]_vars

----------------------------------------------------------------------------
(* One series that navigates: route(), beforeEachNav(), mount() and         *)
(* request() in every combination, without response hooks.                  *)

NavConfigurations ==
  [previousPromise : {Null}, location : Flags, beforeEachNavGuard : Flags,
   mount : Flags, request : Flags, responses : {1},
   beforeAnyResponse : {Null}, beforeEachResponse : {Null}]

NavResponseArrays == {<<>>, <<PlainValue(1)>>, <<Throws>>}

InitNav ==
  /\ series \in {<<m>> : m \in NavConfigurations}
  /\ arrays \in {<<a>> : a \in NavResponseArrays}
  /\ InitExecution

NextNav ==
  \/ \E s \in Series : afterResponses(s)
  \/ \E s \in Series : _initialPromise(s)
  \/ \E s \in Series : installBeforeEachNav(s)
  \/ \E s \in Series : _navigateAndMount(s)
  \/ \E s \in Series : navigationConfirmed(s)
  \/ \E s \in Series : navigationAborted(s)
  \/ \E s \in Series : redirectConfirmed(s)
  \/ \E s \in Series : waitUntilConfirmed(s)
  \/ \E s \in Series : navigationAfterMountThrew(s)
  \/ \E s \in Series : waitForAsyncComponents(s)
  \/ \E s \in Series : runRequest(s)
  \/ \E s \in Series : requestSettled(s)
  \/ \E s \in Series : wait(s)
  \/ \E s \in Series : _restoreHttp(s)
  \/ \E s \in Series : _checkStateAfterWait(s)
  \/ \E s \in Series : afterResponsesCallback(s)
  \/ \E s \in Series : _cleanUpAfterResponses(s)
  \/ \E s \in Series : _http(s)
  \/ \E s \in Series, i \in 1..MaxRequests : respondToRequest(s, i)

SpecNav == InitNav /\ [][NextNav]_vars

----------------------------------------------------------------------------
(* A chain: each series is configured on the MockHttp that afterResponses() *)
(* of the series before it returned.  The first series may mount; the       *)
(* later ones run a request() callback and have both response hooks.        *)

ChainConfigurations(s) ==
  IF s = 1
    THEN [previousPromise : {Null}, location : {Null},
          beforeEachNavGuard : {Null}, mount : Flags, request : Flags,
          responses : {s}, beforeAnyResponse : {Null},
          beforeEachResponse : {Null}]
    ELSE [previousPromise : {s - 1}, location : {Null},
          beforeEachNavGuard : {Null}, mount : {Null}, request : {1},
          responses : {s}, beforeAnyResponse : {1},
          beforeEachResponse : {1}]

ChainResponseArrays == {<<>>, <<PlainValue(1)>>}

InitChain ==
  /\ series \in {c \in [1..NumSeries ->
                         UNION {ChainConfigurations(s) : s \in 1..NumSeries}] :
                   \A s \in 1..NumSeries : c[s] \in ChainConfigurations(s)}
  /\ arrays \in [1..NumSeries -> ChainResponseArrays]
  /\ InitExecution

SpecChain == InitChain /\ [][Next]_vars

----------------------------------------------------------------------------
(* Two series in a chain that both navigate: the first may install a guard  *)
(* and mount, the second may install a guard and run a request() callback.  *)

GuardConfigurations(s) ==
  IF s = 1
    THEN [previousPromise : {Null}, location : {1},
          beforeEachNavGuard : Flags, mount : Flags, request : {Null},
          responses : {s}, beforeAnyResponse : {Null},
          beforeEachResponse : {Null}]
    ELSE [previousPromise : {s - 1}, location : {2},
          beforeEachNavGuard : Flags, mount : {Null}, request : Flags,
          responses : {s}, beforeAnyResponse : {Null},
          beforeEachResponse : {Null}]

InitGuard ==
  /\ series \in {<<m, n>> : m \in GuardConfigurations(1),
                            n \in GuardConfigurations(2)}
  /\ arrays \in {<<a, b>> : a \in {<<>>}, b \in ChainResponseArrays}
  /\ InitExecution

SpecGuard == InitGuard /\ [][NextNav]_vars

----------------------------------------------------------------------------
(* One series that navigates with a guard, runs a request() callback and    *)
(* may have both response hooks: every error _checkStateAfterWait() tests.  *)

VerifyConfigurations ==
  [previousPromise : {Null}, location : {1}, beforeEachNavGuard : Flags,
   mount : {Null}, request : {1}, responses : {1},
   beforeAnyResponse : Flags, beforeEachResponse : Flags]

VerifyResponseArrays ==
  {<<>>, <<PlainValue(1)>>, <<Throws>>, <<Throws, PlainValue(1)>>}

InitVerify ==
  /\ series \in {<<m>> : m \in VerifyConfigurations}
  /\ arrays \in {<<a>> : a \in VerifyResponseArrays}
  /\ InitExecution

NextVerify ==
  \/ \E s \in Series : afterResponses(s)
  \/ \E s \in Series : _initialPromise(s)
  \/ \E s \in Series : installBeforeEachNav(s)
  \/ \E s \in Series : _navigateAndMount(s)
  \/ \E s \in Series : navigationConfirmed(s)
  \/ \E s \in Series : navigationAborted(s)
  \/ \E s \in Series : redirectConfirmed(s)
  \/ \E s \in Series : waitUntilConfirmed(s)
  \/ \E s \in Series : waitForAsyncComponents(s)
  \/ \E s \in Series : runRequest(s)
  \/ \E s \in Series : requestSettled(s)
  \/ \E s \in Series : wait(s)
  \/ \E s \in Series : _restoreHttp(s)
  \/ \E s \in Series : _checkStateAfterWait(s)
  \/ \E s \in Series : afterResponsesCallback(s)
  \/ \E s \in Series : _cleanUpAfterResponses(s)
  \/ \E s \in Series : _http(s)
  \/ \E s \in Series, i \in 1..MaxRequests : _tryBeforeAnyResponse(s, i)
  \/ \E s \in Series, i \in 1..MaxRequests : beforeAnyResponseSettled(s, i)
  \/ \E s \in Series, i \in 1..MaxRequests : _tryBeforeEachResponse(s, i)
  \/ \E s \in Series, i \in 1..MaxRequests : beforeEachResponseSettled(s, i)
  \/ \E s \in Series, i \in 1..MaxRequests : respondToRequest(s, i)

SpecVerify == InitVerify /\ [][NextVerify]_vars

----------------------------------------------------------------------------
(* Awaiting a MockHttp: then(), catch() and finally() call toPromise().     *)

\* toPromise(): const anySetup = ...
AnySetup(m, queue) ==
  \/ m.location # Null
  \/ m.beforeEachNavGuard # Null
  \/ m.mount # Null
  \/ m.request # Null
  \/ Len(queue) # 0
  \/ m.beforeAnyResponse # Null
  \/ m.beforeEachResponse # Null

\* The series whose promise toPromise() takes: this.complete()._previousPromise
\* is the promise of the receiver's own series.
Awaited(r) ==
  IF AnySetup(series[r], Responses(r)) THEN r ELSE Predecessor(r)

\* What the callback of a test returns, and the result of a fulfilled
\* series: .then(result => ({ component: this._component, result })).
CallbackValue == 9
Result(s) ==
  IF completion[s] = "identity" THEN ctx[s].component ELSE CallbackValue

\* promise.then(({ result }) => result)
Yields(r) == Result(Awaited(r))

toPromiseNeverCompletes(r) ==
  /\ pc[r] = "config"
  /\ Predecessor(r) # Null => pc[Predecessor(r)] \notin {"config", "threw"}
  /\ Called("toPromise", r)
  /\ thrown' = ""
  /\ UNCHANGED <<series, arrays, pc, err, ctx, inProgress, http,
                 lastNavigationWasConfirmed, completion, appVars>>
toPromise(r) ==
  /\ pc[r] = "config"
  /\ Predecessor(r) # Null => pc[Predecessor(r)] \notin {"config", "threw"}
  /\ Called("toPromise", r)
  /\ IF ~AnySetup(series[r], Responses(r))
       THEN /\ thrown' = ""
            /\ UNCHANGED <<pc, completion>>
     ELSE IF NothingToDo(series[r])
       THEN /\ thrown' = "route(), mount(), and/or request() required"
            /\ Goto(r, "threw")
            /\ UNCHANGED completion
       ELSE /\ thrown' = ""
            /\ Goto(r, "init")
            /\ completion' = [completion EXCEPT ![r] = "identity"]
  /\ UNCHANGED <<series, arrays, err, ctx, inProgress, http,
                 lastNavigationWasConfirmed, appVars>>

\* Three objects: a configured series, the MockHttp that afterResponses() of
\* that series returns, and a new MockHttp() without configuration.
AwaitConfigurations ==
  [previousPromise : {Null}, location : {Null}, beforeEachNavGuard : {Null},
   mount : Flags, request : Flags, responses : {1},
   beforeAnyResponse : Flags, beforeEachResponse : Flags]

InitAwait ==
  /\ series \in {<<m, NewMockHttp(1, 2), NewMockHttp(Null, 3)>> :
                   m \in AwaitConfigurations}
  /\ arrays \in {<<a, <<>>, <<>>>> : a \in ChainResponseArrays}
  /\ InitExecution

NextAwait ==
  \/ Next
  \/ \E r \in Series : toPromise(r)

SpecAwait == InitAwait /\ [][NextAwait]_vars

----------------------------------------------------------------------------
(* One series with a request() callback and no hook, completed with a       *)
(* callback of the test or with component => component.                     *)

LogConfigurations ==
  [previousPromise : {Null}, location : {Null}, beforeEachNavGuard : {Null},
   mount : Flags, request : {1}, responses : {1},
   beforeAnyResponse : {Null}, beforeEachResponse : {Null}]

InitLog ==
  /\ series \in {<<m>> : m \in LogConfigurations}
  /\ arrays \in {<<a>> : a \in ResponseArrays}
  /\ completion \in [Series -> Completions]
  /\ call = NoCall
  /\ thrown = ""
  /\ pc = [s \in Series |-> "config"]
  /\ err = [s \in Series |-> ""]
  /\ ctx = [s \in Series |-> InitialContext]
  /\ inProgress = FALSE
  /\ http = OriginalHttp
  /\ lastNavigationWasConfirmed = FALSE
  /\ NoApplication

NextLog ==
  \/ \E s \in Series : afterResponses(s)
  \/ \E s \in Series : _initialPromise(s)
  \/ \E s \in Series : installBeforeEachNav(s)
  \/ \E s \in Series : _navigateAndMount(s)
  \/ \E s \in Series : waitForAsyncComponents(s)
  \/ \E s \in Series : runRequest(s)
  \/ \E s \in Series : requestSettled(s)
  \/ \E s \in Series : wait(s)
  \/ \E s \in Series : _restoreHttp(s)
  \/ \E s \in Series : _checkStateAfterWait(s)
  \/ \E s \in Series : afterResponsesCallback(s)
  \/ \E s \in Series : _cleanUpAfterResponses(s)
  \/ \E s \in Series : _http(s)
  \/ \E s \in Series, i \in 1..MaxRequests : respondToRequest(s, i)

SpecLog == InitLog /\ [][NextLog]_vars

----------------------------------------------------------------------------
(* The request mixin: request() of a component, the transport's answer and  *)
(* the two handlers request() chains on the promise of the transport.       *)

MaxRoutes == 3        \* route objects the router creates in SpecRequest

\* fulfillProblem: not given, or a function that returns true or false for
\* the Problem it is passed.
FulfillProblems == {"undefined", "accepts", "declines"}

\* How the promise of this.$http.request() settles: fulfilled with a
\* response, rejected with an error whose response holds a Problem, or
\* rejected with an error without a Problem.
Transports == {"response", "problem", "noProblem"}

\* isProblem(error.response.data), with error.response != null
isProblem(transport) == transport = "problem"

\* The variables of MockHttp when no series is configured.
NoMockHttp ==
  /\ series = <<>>
  /\ arrays = <<>>
  /\ call = NoCall
  /\ thrown = ""
  /\ pc = <<>>
  /\ err = <<>>
  /\ ctx = <<>>
  /\ inProgress = FALSE
  /\ http = OriginalHttp
  /\ lastNavigationWasConfirmed = FALSE
  /\ completion = <<>>

mockHttpVars ==
  <<series, arrays, pc, err, ctx, inProgress, http,
    lastNavigationWasConfirmed, completion>>

\* if (this.awaitingResponse != null) this.awaitingResponse = value
SetAwaitingResponse(value) ==
  IF requestMixin.awaitingResponse = "undefined" THEN "undefined" ELSE value

\* request({ fulfillProblem, ...axiosConfig }): throws for validateStatus,
\* else keeps the current route and passes the config to the transport.
sendRequest(fulfillProblem, validateStatus) ==
  /\ requestMixin.pc = "idle"
  /\ call' = [method |-> "request", receiver |-> 0]
  /\ IF validateStatus
       THEN /\ thrown'
                 = "validateStatus is not supported. Use fulfillProblem instead."
            /\ UNCHANGED requestMixin
       ELSE /\ thrown' = ""
            /\ requestMixin' =
                 [requestMixin EXCEPT
                    !.pc = "awaiting",
                    !.awaitingResponse = SetAwaitingResponse("true"),
                    !.currentRoute = store.currentRoute,
                    !.fulfillProblem = fulfillProblem]
  /\ UNCHANGED <<mockHttpVars, store, lifecycle>>

\* The promise of the transport settles.
transportSettles(transport) ==
  /\ requestMixin.pc = "awaiting"
  /\ requestMixin' = [requestMixin EXCEPT !.pc = "answered",
                                          !.transport = transport]
  /\ UNCHANGED <<mockHttpVars, call, thrown, store, lifecycle>>

\* The user navigates: the router makes a new route object the current
\* route, and the watcher of $route resets awaitingResponse.
navigate ==
  /\ store.currentRoute < MaxRoutes
  /\ store' = [store EXCEPT !.currentRoute = @ + 1]
  /\ requestMixin' =
       [requestMixin EXCEPT !.awaitingResponse = SetAwaitingResponse("false")]
  /\ UNCHANGED <<mockHttpVars, call, thrown, lifecycle>>

RouteChanged == store.currentRoute # requestMixin.currentRoute

\* .catch(error => { ... }) for a promise of the transport that was rejected
catchWithoutRouteCheck ==
  /\ requestMixin.pc = "answered"
  /\ requestMixin.transport # "response"
  /\ IF requestMixin.fulfillProblem # "undefined"
          /\ isProblem(requestMixin.transport)
       THEN IF requestMixin.fulfillProblem = "accepts"
              THEN /\ requestMixin' =
                        [requestMixin EXCEPT
                           !.pc = "caught",
                           !.awaitingResponse = SetAwaitingResponse("false"),
                           !.consulted = TRUE]
                   /\ UNCHANGED store
              ELSE /\ requestMixin' =
                        [requestMixin EXCEPT
                           !.pc = "settled",
                           !.awaitingResponse = SetAwaitingResponse("false"),
                           !.consulted = TRUE,
                           !.logged = TRUE,
                           !.settled = "error"]
                   /\ store' = [store EXCEPT !.alert = "danger"]
       ELSE /\ requestMixin' =
                 [requestMixin EXCEPT
                    !.pc = "settled",
                    !.awaitingResponse = SetAwaitingResponse("false"),
                    !.logged = TRUE,
                    !.settled = "error"]
            /\ store' = [store EXCEPT !.alert = "danger"]
  /\ UNCHANGED <<mockHttpVars, call, thrown, lifecycle>>
catchIgnoresFulfillProblem ==
  /\ requestMixin.pc = "answered"
  /\ requestMixin.transport # "response"
  /\ IF RouteChanged
       THEN /\ requestMixin' = [requestMixin EXCEPT !.pc = "settled",
                                                    !.settled = "route change"]
            /\ UNCHANGED store
     ELSE IF requestMixin.fulfillProblem # "undefined"
             /\ isProblem(requestMixin.transport)
       THEN IF FALSE
              THEN /\ requestMixin' =
                        [requestMixin EXCEPT
                           !.pc = "caught",
                           !.awaitingResponse = SetAwaitingResponse("false"),
                           !.consulted = TRUE]
                   /\ UNCHANGED store
              ELSE /\ requestMixin' =
                        [requestMixin EXCEPT
                           !.pc = "settled",
                           !.awaitingResponse = SetAwaitingResponse("false"),
                           !.consulted = TRUE,
                           !.logged = TRUE,
                           !.settled = "error"]
                   /\ store' = [store EXCEPT !.alert = "danger"]
       ELSE /\ requestMixin' =
                 [requestMixin EXCEPT
                    !.pc = "settled",
                    !.awaitingResponse = SetAwaitingResponse("false"),
                    !.logged = TRUE,
                    !.settled = "error"]
            /\ store' = [store EXCEPT !.alert = "danger"]
  /\ UNCHANGED <<mockHttpVars, call, thrown, lifecycle>>
catch ==
  /\ requestMixin.pc = "answered"
  /\ requestMixin.transport # "response"
  /\ IF RouteChanged
       THEN /\ requestMixin' = [requestMixin EXCEPT !.pc = "settled",
                                                    !.settled = "route change"]
            /\ UNCHANGED store
     ELSE IF requestMixin.fulfillProblem # "undefined"
             /\ isProblem(requestMixin.transport)
       THEN IF requestMixin.fulfillProblem = "accepts"
              THEN /\ requestMixin' =
                        [requestMixin EXCEPT
                           !.pc = "caught",
                           !.awaitingResponse = SetAwaitingResponse("false"),
                           !.consulted = TRUE]
                   /\ UNCHANGED store
              ELSE /\ requestMixin' =
                        [requestMixin EXCEPT
                           !.pc = "settled",
                           !.awaitingResponse = SetAwaitingResponse("false"),
                           !.consulted = TRUE,
                           !.logged = TRUE,
                           !.settled = "error"]
                   /\ store' = [store EXCEPT !.alert = "danger"]
       ELSE /\ requestMixin' =
                 [requestMixin EXCEPT
                    !.pc = "settled",
                    !.awaitingResponse = SetAwaitingResponse("false"),
                    !.logged = TRUE,
                    !.settled = "error"]
            /\ store' = [store EXCEPT !.alert = "danger"]
  /\ UNCHANGED <<mockHttpVars, call, thrown, lifecycle>>

\* .then(response => { ... }) for a promise the transport fulfilled or the
\* catch() callback fulfilled with error.response
thenWithoutReset ==
  /\ \/ requestMixin.pc = "answered" /\ requestMixin.transport = "response"
     \/ requestMixin.pc = "caught"
  /\ requestMixin' =
       IF RouteChanged
         THEN [requestMixin EXCEPT !.pc = "settled",
                                   !.settled = "route change"]
         ELSE [requestMixin EXCEPT
                 !.pc = "settled",
                 !.settled = "response"]
  /\ UNCHANGED <<mockHttpVars, call, thrown, store, lifecycle>>
then ==
  /\ \/ requestMixin.pc = "answered" /\ requestMixin.transport = "response"
     \/ requestMixin.pc = "caught"
  /\ requestMixin' =
       IF RouteChanged
         THEN [requestMixin EXCEPT !.pc = "settled",
                                   !.settled = "route change"]
         ELSE [requestMixin EXCEPT
                 !.pc = "settled",
                 !.awaitingResponse = SetAwaitingResponse("false"),
                 !.settled = "response"]
  /\ UNCHANGED <<mockHttpVars, call, thrown, store, lifecycle>>

InitRequest ==
  /\ NoMockHttp
  /\ store = InitialStore
  /\ requestMixin \in {[NoRequest EXCEPT !.awaitingResponse = a] :
                         a \in {"undefined", "false"}}
  /\ lifecycle = NothingMounted

NextRequest ==
  \/ \E fulfillProblem \in FulfillProblems, validateStatus \in BOOLEAN :
       sendRequest(fulfillProblem, validateStatus)
  \/ \E transport \in Transports : transportSettles(transport)
  \/ navigate
  \/ catch
  \/ then

SpecRequest == InitRequest /\ [][NextRequest]_vars

----------------------------------------------------------------------------
(* lifecycle.js: mount() and destroyMarkedComponents().                     *)

MaxMounted == 3       \* wrappers mount() creates in SpecLifecycle

\* A component with an i18n custom block (component.__i18n != null) or
\* without one.
Mountables == {"component", "i18n"}

\* The options of mount() that matter: attachToDocument, router (an option
\* that is not supported with Root) and requestData (none, data, or a Problem
\* for a key that has no transform).
MountOptions ==
  [attachToDocument : BOOLEAN, router : BOOLEAN,
   requestData : {"undefined", "data", "problem"}]

\* componentToDestroy.vm.$el.parentNode != null
IsAttached(wrapper) == wrapper.id \in lifecycle.document

\* mount(component, options)
mountComponent(mountable, options) ==
  /\ call' = [method |-> "mount", receiver |-> 0, argument |-> mountable,
              options |-> options]
  /\ IF mountable = "i18n" /\ options.router
       THEN Throw("unknown or unsupported option")
     ELSE IF options.attachToDocument
             /\ \E i \in 1..Len(lifecycle.componentsToDestroy) :
                  IsAttached(lifecycle.componentsToDestroy[i])
       THEN Throw("only one component can be attached to the document")
     ELSE IF options.requestData = "problem"
       THEN Throw("unexpected problem response")
       ELSE /\ lifecycle.wrappers < MaxMounted
            /\ lifecycle' =
                 [componentsToDestroy |->
                    Append(lifecycle.componentsToDestroy,
                           [id |-> lifecycle.wrappers + 1,
                            component |-> IF mountable = "i18n" THEN "Root"
                                          ELSE mountable]),
                  document |->
                    IF options.attachToDocument
                      THEN lifecycle.document \cup {lifecycle.wrappers + 1}
                      ELSE lifecycle.document,
                  wrappers |-> lifecycle.wrappers + 1]
            /\ thrown' = ""
            /\ UNCHANGED <<mockHttpVars, store, requestMixin>>

\* destroyMarkedComponents(): every component is destroyed, its element
\* removed from its parent, and the array emptied.
destroyWithoutRemoving ==
  /\ call' = [method |-> "destroyMarkedComponents", receiver |-> 0]
  /\ lifecycle' = [lifecycle EXCEPT !.componentsToDestroy = <<>>]
  /\ thrown' = ""
  /\ UNCHANGED <<mockHttpVars, store, requestMixin>>
destroyMarkedComponents ==
  /\ call' = [method |-> "destroyMarkedComponents", receiver |-> 0]
  /\ lifecycle' =
       [lifecycle EXCEPT
          !.componentsToDestroy = <<>>,
          !.document =
             @ \ {lifecycle.componentsToDestroy[i].id :
                    i \in 1..Len(lifecycle.componentsToDestroy)}]
  /\ thrown' = ""
  /\ UNCHANGED <<mockHttpVars, store, requestMixin>>

InitLifecycle ==
  /\ NoMockHttp
  /\ NoApplication

NextLifecycle ==
  \/ \E mountable \in Mountables, options \in MountOptions :
       mountComponent(mountable, options)
  \/ destroyMarkedComponents

SpecLifecycle == InitLifecycle /\ [][NextLifecycle]_vars

----------------------------------------------------------------------------
(* Properties of one series (Spec).                                         *)

RequestWithoutResponse ==
  "request without response: no response specified for request"
ResponseWithoutRequest ==
  "response without request: not all responses were requested"

\* C1: the i-th request the stub accepts is answered from the i-th queued
\* response callback, and the hooks and the response callback of a request
\* do not run before the response to the request before it was delivered.
C1_ResponsesInRequestOrder ==
  \A s \in Series : \A i \in Links(s) :
    LET link == ctx[s].chain[i] IN
      /\ link.request = i
      /\ (link.phase = "responded"
            /\ Responses(s)[link.request].ret # "throw")
           => link.response = Wrapped(Responses(s)[link.request])
      /\ (i > 1 /\ link.phase # "chained")
           => ctx[s].chain[i - 1].settled # "pending"
      /\ (i > 1 /\ link.settled # "pending")
           => ctx[s].chain[i - 1].settled # "pending"

\* Two requests were sent before any response; the first response has been
\* delivered and the hook of the second request is running.
C1_Witness ==
  \E s \in Series :
    /\ Len(ctx[s].chain) = 2
    /\ Len(ctx[s].requestResponseLog) = 3
    /\ ctx[s].requestResponseLog[2].entry = "request"
    /\ ctx[s].requestResponseLog[3].entry = "response"
    /\ ctx[s].chain[1].settled = "fulfilled"
    /\ ctx[s].chain[2].phase = "beforeEachResponse"

\* The captured errors and the rejections of earlier steps that take
\* precedence over a cardinality error.
NoOtherError(s) ==
  /\ ~ctx[s].errorFromBeforeEachNav
  /\ ~ctx[s].errorFromBeforeAnyResponse
  /\ ~ctx[s].errorFromBeforeEachResponse
  /\ ctx[s].errorFromResponse = Null
  /\ err[s] \in {"", RequestWithoutResponse, ResponseWithoutRequest}

\* The promise of a series that replaced the transport has settled.
Executed(s) == pc[s] = "done" /\ err[s] # "another series is in progress"

\* C2 as stated: when the promise of afterResponses() has settled, it is
\* rejected with the cardinality error whenever the number of requests
\* differs from the number of responses, and fulfilled when they are equal
\* and no other error occurred.
C2_AsStated ==
  \A s \in Series : Executed(s) =>
    LET requests == Cardinality(Requests(s))
        responses == Len(Responses(s))
    IN  /\ requests > responses => err[s] = RequestWithoutResponse
        /\ requests < responses => err[s] = ResponseWithoutRequest
        /\ (requests = responses /\ NoOtherError(s)) => err[s] = ""

\* C2 (amended): the promise is rejected whenever the numbers differ; unless
\* another error takes precedence (a step before _checkStateAfterWait()
\* rejected, or a hook or response callback error was captured), it is
\* rejected with 'request without response' when there are more requests,
\* with 'response without request' when there are fewer, and it is fulfilled
\* when the numbers are equal.
C2_Cardinality ==
  \A s \in Series : Executed(s) =>
    LET requests == Cardinality(Requests(s))
        responses == Len(Responses(s))
    IN  /\ requests # responses => err[s] # ""
        /\ NoOtherError(s) =>
             /\ requests > responses => err[s] = RequestWithoutResponse
             /\ requests < responses => err[s] = ResponseWithoutRequest
             /\ requests = responses => err[s] = ""

\* A series sent one request with two responses queued and was rejected with
\* 'response without request'.
C2_Witness ==
  \E s \in Series :
    /\ Executed(s)
    /\ Cardinality(Requests(s)) = 1
    /\ Len(Responses(s)) = 2
    /\ err[s] = ResponseWithoutRequest

\* C8: on a series with none of route, mount and request, afterResponses()
\* throws and starts nothing: the series never leaves its configuration, the
\* lock is not acquired and the transport is not replaced.
C8_NothingToDoThrows ==
  \A s \in Series : NothingToDo(series[s]) =>
    /\ pc[s] \in {"config", "threw"}
    /\ pc[s] = "threw" => thrown = "route(), mount(), and/or request() required"
    /\ ctx[s] = InitialContext
    /\ ~inProgress
    /\ http = OriginalHttp

\* afterResponses() threw on a series with responses and hooks configured.
C8_Witness ==
  \E s \in Series :
    /\ pc[s] = "threw"
    /\ Len(Responses(s)) > 0
    /\ series[s].beforeAnyResponse # Null
    /\ series[s].beforeEachResponse # Null

\* C10: a response produced from { problem: code } has status floor(code)
\* and body { code, message: 'There was a problem.' } (the code is 500.1
\* when respondWithProblem() is given no argument); from
\* { problem: { code, message } } status floor(code) and that Problem as
\* body; from a plain value status 200 and the value as body.
C10_ResponseShapes ==
  /\ respondWithProblemCallback(Undefined).ret = "problemCode"
  /\ respondWithProblemCallback(Undefined).code = 5001
  /\ \A s \in Series : \A i \in Links(s) :
       LET link == ctx[s].chain[i]
           returned == Responses(s)[i]
           status == link.response.status
           data == link.response.data
       IN  (link.phase = "responded" /\ returned.ret # "throw") =>
             /\ returned.ret = "value" =>
                  status = 200 /\ data.t = "data" /\ data.v = returned.v
             /\ returned.ret \in {"problemCode", "problemObject"} =>
                  /\ 10 * status <= returned.code
                  /\ returned.code < 10 * (status + 1)
                  /\ data.t = "problem"
                  /\ data.code = returned.code
             /\ returned.ret = "problemCode" =>
                  data.message = "There was a problem."
             /\ returned.ret = "problemObject" =>
                  data.message = returned.message
             /\ data.t \in {"data", "problem"}

\* The response to a request was produced from the Problem code 404.1.
C10_Witness ==
  \E s \in Series : \E i \in Links(s) :
    /\ ctx[s].chain[i].phase = "responded"
    /\ Responses(s)[i] = ProblemCode(4041)
    /\ ctx[s].chain[i].response.status = 404

----------------------------------------------------------------------------
(* Properties of several series (SpecSeries).                               *)

\* The series is between its lock acquisition and its cleanup.
Holding(s) == ctx[s].inProgress /\ pc[s] # "done"

\* C3: no two series are between lock acquisition and cleanup at once.
C3_MutualExclusion ==
  \A s \in Series : \A q \in Series :
    (Holding(s) /\ Holding(q)) => s = q

\* C4: once the series that acquired the lock has finished, fulfilled or
\* rejected, the lock is free, and a series is rejected with 'another series
\* is in progress' only while some other series is between its lock
\* acquisition and its cleanup.
C4_LockReleased ==
  /\ [](inProgress => \E q \in Series : Holding(q))
  /\ [][\A s \in Series :
          (/\ pc[s] = "init"
           /\ Predecessor(s) # Null => err[Predecessor(s)] = ""
           /\ err'[s] = "another series is in progress")
            => \E q \in Series \ {s} : Holding(q)]_vars

\* A series was rejected by its completion callback and finished; then
\* another series, not chained on it, acquired the lock.
C4_Witness ==
  \E s \in Series : \E q \in Series \ {s} :
    /\ pc[s] = "done"
    /\ err[s] = "afterResponses() callback threw an error"
    /\ pc[q] = "beforeEachNav"
    /\ \A o \in Series \ {s, q} : pc[o] = "config"

\* C5: once every series has finished, the transport is the original one.
C5_TransportRestored ==
  (\A s \in Series : pc[s] = "done") => http = OriginalHttp

----------------------------------------------------------------------------
(* Properties of the builder calls (SpecBuild).  `call` and `thrown` are    *)
(* the method and receiver of the step's call and what it threw.            *)

Setters ==
  {"route", "beforeEachNav", "mount", "request", "beforeAnyResponse",
   "beforeEachResponse"}
Responders ==
  {"respond", "respondWithData", "respondWithSuccess", "respondWithProblem"}
Folds == {"respondForComponent", "respondFor"}

\* The value a setter has given to a series, Null if it was not called.
Setting(m, method) ==
  CASE method = "route" -> m.location
    [] method = "beforeEachNav" -> m.beforeEachNavGuard
    [] method = "mount" -> m.mount
    [] method = "request" -> m.request
    [] method = "beforeAnyResponse" -> m.beforeAnyResponse
    [] method = "beforeEachResponse" -> m.beforeEachResponse

Queue(objects, heap, i) == heap[objects[i].responses]

\* C6: a setter called on a series that already has its setting throws and
\* creates no series; every call of respond() or of a variant returns a
\* series whose queue is the receiver's queue plus exactly one response.
C6_SettersOnce ==
  [][/\ (call'.method \in Setters
          /\ Setting(series[call'.receiver], call'.method) # Null)
        => (thrown' # "" /\ series' = series /\ arrays' = arrays)
     /\ call'.method \in Responders
        => /\ thrown' = ""
           /\ Len(series') = Len(series) + 1
           /\ Len(Queue(series', arrays', Len(series')))
                = Len(Queue(series, arrays, call'.receiver)) + 1
           /\ SubSeq(Queue(series', arrays', Len(series')), 1,
                     Len(Queue(series, arrays, call'.receiver)))
                = Queue(series, arrays, call'.receiver)]_vars

\* A second request() has thrown on a series on which respond() was called
\* twice.
C6_Witness ==
  /\ thrown = "cannot call request() more than once in a single series"
  /\ call.method = "request"
  /\ Len(Queue(series, arrays, call.receiver)) = 2

\* C7: the series afterResponses() or complete() returns has a predecessor,
\* every configuration call hands the receiver's predecessor on to the series
\* it returns, and mount() throws exactly on the series that have a
\* predecessor or a mount.
C7_MountOnlyFirst ==
  [][/\ (call'.method \in {"afterResponses", "complete"} /\ thrown' = "")
        => series'[Len(series')].previousPromise = call'.receiver
     /\ call'.method \notin {"mockHttp", "afterResponses", "complete"}
        => \A i \in (Len(series) + 1)..Len(series') :
             series'[i].previousPromise
               = series[call'.receiver].previousPromise
     /\ call'.method = "mount"
        => IF series[call'.receiver].previousPromise # Null
              \/ series[call'.receiver].mount # Null
             THEN thrown' # "" /\ series' = series
             ELSE /\ thrown' = ""
                  /\ Len(series') = Len(series) + 1
                  /\ series'[Len(series')].mount # Null]_vars

\* mount() has thrown on a series derived by route() from the series that
\* afterResponses() returned.
C7_Witness ==
  /\ thrown = "cannot call mount() after the first series in a chain"
  /\ call.method = "mount"
  /\ series[call.receiver].location # Null
  /\ series[call.receiver].mount = Null

\* Every object and its response queue are as they were before the step.
ObjectsUnchanged ==
  /\ Len(series') >= Len(series)
  /\ \A i \in 1..Len(series) :
       /\ series'[i] = series[i]
       /\ Queue(series', arrays', i) = Queue(series, arrays, i)

\* C9 as stated: every configuration call that returns, returns a new series
\* and leaves every existing series and its response queue unchanged.
C9_AsStated ==
  [][/\ ObjectsUnchanged
     /\ (call'.method # "mockHttp" /\ thrown' = "")
          => Len(series') > Len(series)]_vars

\* C9: no configuration call changes an existing series or its response
\* queue; every call that returns, returns a new series, except that
\* respondForComponent() and respondFor() return the receiver itself when
\* they queue no response.
C9_Immutable ==
  [][/\ ObjectsUnchanged
     /\ (call'.method \notin Folds \cup {"mockHttp"} /\ thrown' = "")
          => Len(series') > Len(series)
     /\ (call'.method \in Folds /\ Len(series') = Len(series))
          => (thrown' = "" /\ series' = series /\ arrays' = arrays)]_vars

\* Two series derived from the first one by respond() have their own
\* queues, and the queue of the first one is still empty.
C9_Witness ==
  /\ call.method = "respond"
  /\ call.receiver = 1
  /\ Queue(series, arrays, 1) = <<>>
  /\ \E i \in 2..Len(series) : \E j \in 2..Len(series) :
       /\ Len(Queue(series, arrays, i)) = 1
       /\ Len(Queue(series, arrays, j)) = 1
       /\ Queue(series, arrays, i) # Queue(series, arrays, j)

----------------------------------------------------------------------------
(* Properties of the transport stub (Spec).                                 *)

\* The response callback of link i of series s.
CallbackOf(s, i) == Responses(s)[ctx[s].chain[i].callback]

\* C11: the promise of a request whose response callback returned is
\* fulfilled exactly when the status of the response is in 200..299, and it
\* carries the response (status and body) whether fulfilled or rejected.
C11_FulfillsExactly2xx ==
  \A s \in Series : \A i \in Links(s) :
    LET link == ctx[s].chain[i] IN
      (link.phase = "responded" /\ CallbackOf(s, i).ret # "throw")
        => /\ link.response = Wrapped(CallbackOf(s, i))
           /\ link.settled =
                IF link.response.status \in 200..299 THEN "fulfilled"
                ELSE "rejected"

\* A response of status 299 has fulfilled one request and a response of
\* status 300 has rejected another.
C11_Witness ==
  \E s \in Series : \E i \in Links(s) : \E j \in Links(s) :
    /\ ctx[s].chain[i].response.status = 299
    /\ ctx[s].chain[i].settled = "fulfilled"
    /\ ctx[s].chain[j].response.status = 300
    /\ ctx[s].chain[j].settled = "rejected"

----------------------------------------------------------------------------
(* Properties of the pipeline of one series (SpecNav).                      *)

\* The places of the promise chain of afterResponses(), in its order.
Steps ==
  <<"config", "init", "beforeEachNav", "navigateAndMount", "navigating",
    "redirected", "settle", "request", "requesting", "wait", "restoreHttp",
    "checkState", "callback", "cleanUp", "done">>
Rank(p) == CHOOSE k \in 1..Len(Steps) : Steps[k] = p

\* C12: a series only moves forward through the steps, and each step acts
\* at its place: the lock is acquired first, the guard is installed next,
\* the component is mounted and the navigation made before the request
\* callback runs, the transport is restored once no response is in flight,
\* the completion callback runs only after _checkStateAfterWait() returned,
\* and the lock is released last.
C12_StepsInOrder ==
  [][\A s \in Series :
       /\ pc'[s] = "threw" => pc[s] \in {"config", "threw"}
       /\ (pc'[s] # pc[s] /\ pc'[s] # "threw")
            => Rank(pc'[s]) > Rank(pc[s])
       /\ (ctx'[s].inProgress /\ ~ctx[s].inProgress) => pc[s] = "init"
       /\ (ctx'[s].guardInstalled /\ ~ctx[s].guardInstalled)
            => (pc[s] = "beforeEachNav" /\ ctx[s].inProgress)
       /\ ctx'[s].component # ctx[s].component
            => (pc[s] = "navigateAndMount" /\ ctx[s].inProgress)
       /\ lastNavigationWasConfirmed' # lastNavigationWasConfirmed
            => (pc[s] \in {"navigating", "redirected"} \/ Abandoned(s))
       /\ pc'[s] = "requesting" => pc[s] \in {"request", "requesting"}
       /\ (http = s /\ http' # s)
            => (pc[s] = "restoreHttp" /\ InFlight(s) = {})
       /\ (pc'[s] = "callback" /\ pc[s] # "callback")
            => /\ pc[s] = "checkState"
               /\ StateAfterWait(ctx[s]) = ""
               /\ http # s
       /\ (inProgress /\ ~inProgress')
            => (pc[s] = "cleanUp" /\ http # s)]_vars

\* A series with a route, a guard, a mount and a request callback has run
\* every step, answered one request and fulfilled.
C12_Witness ==
  \E s \in Series :
    /\ series[s].location # Null
    /\ series[s].beforeEachNavGuard # Null
    /\ series[s].mount # Null
    /\ series[s].request # Null
    /\ pc[s] = "done"
    /\ err[s] = ""
    /\ Len(ctx[s].chain) = 1
    /\ ctx[s].component # Null

----------------------------------------------------------------------------
(* Properties of a chain of series (SpecChain).                             *)

\* The first series of the chain that series s belongs to.
RECURSIVE First(_)
First(s) == IF Predecessor(s) = Null THEN s ELSE First(Predecessor(s))

\* C13: while a chained series is in progress, which is when its request()
\* callback, its hooks and its afterResponses() callback are called with
\* this._component, this._component is the component of the first series
\* of the chain: the component that series mounted, if it mounted one.
C13_ComponentHandedOn ==
  \A s \in Series :
    (Predecessor(s) # Null /\ ctx[s].inProgress)
      => /\ ctx[s].component = ctx[First(s)].component
         /\ series[First(s)].mount # Null => ctx[s].component = First(s)

\* The third series of a chain whose first series mounted has called both
\* hooks, answered a request and reached its afterResponses() callback.
C13_Witness ==
  /\ series[1].mount # Null
  /\ pc[3] = "callback"
  /\ ctx[3].component = 1
  /\ Len(ctx[3].chain) = 1
  /\ ctx[3].chain[1].phase = "responded"

\* C14: no series of a chain is ever rejected with 'another series is in
\* progress', because the callback of _initialPromise() of a chained series
\* runs only when the series before it has finished its chain, cleanup
\* included, and no series holds the lock.
C14_ChainRunsInTurn ==
  /\ [](\A s \in Series : err[s] # "another series is in progress")
  /\ [][\A s \in Series :
          (Predecessor(s) # Null /\ pc[s] = "init" /\ pc'[s] # "init")
            => /\ pc[Predecessor(s)] = "done"
               /\ ~ctx[Predecessor(s)].inProgress
               /\ ~inProgress]_vars

\* Every series of the chain has finished and fulfilled.
C14_Witness ==
  \A s \in Series : pc[s] = "done" /\ err[s] = "" /\ ~ctx[s].inProgress

----------------------------------------------------------------------------
(* Properties of awaiting a MockHttp (SpecAwait).                           *)

Fulfilled(s) == pc[s] = "done" /\ err[s] = ""

\* C15: toPromise() on a series with configuration does what complete() does
\* (it throws if there is nothing to do, else starts the pipeline with the
\* identity callback) and yields the component of the series; on a series
\* without configuration it starts nothing and changes neither the lock nor
\* the transport, and when the series has a predecessor it yields the result
\* of the predecessor's afterResponses() callback.
C15_Await ==
  /\ [](\A r \in Series :
          /\ (completion[r] = "identity" /\ Fulfilled(r))
               => /\ Yields(r) = ctx[r].component
                  /\ series[r].mount # Null => Yields(r) = r
          /\ (/\ ~AnySetup(series[r], Responses(r))
              /\ Predecessor(r) # Null
              /\ Fulfilled(Predecessor(r))
              /\ completion[Predecessor(r)] = "callback")
               => Yields(r) = CallbackValue)
  /\ [][\A r \in Series :
          (call' # call /\ call'.method = "toPromise" /\ call'.receiver = r)
            => IF ~AnySetup(series[r], Responses(r))
                 THEN /\ thrown' = ""
                      /\ pc' = pc
                      /\ ctx' = ctx
                      /\ inProgress' = inProgress
                      /\ http' = http
               ELSE IF NothingToDo(series[r])
                 THEN /\ thrown' = "route(), mount(), and/or request() required"
                      /\ pc'[r] = "threw"
                      /\ inProgress' = inProgress
                      /\ http' = http
                 ELSE /\ thrown' = ""
                      /\ pc'[r] = "init"
                      /\ completion'[r] = "identity"]_vars

\* A series that mounts was awaited without a call of afterResponses(); it
\* has run its pipeline and fulfilled, and the await yields its component.
C15_Witness ==
  /\ call = [method |-> "toPromise", receiver |-> 1]
  /\ series[1].mount # Null
  /\ completion[1] = "identity"
  /\ Fulfilled(1)
  /\ Yields(1) = 1

\* The response one declared key gets under the overrides: the default
\* factory, the override function, or a Problem response with the code.
ResponseFor(entry, options) ==
  LET option == options[entry.key]
  IN IF option = Undefined THEN entry.callback
     ELSE IF option.ret = "number" THEN ProblemCode(option.code)
     ELSE option

\* The declared keys of a component that are not overridden with false.
KeptKeys(component, options) ==
  SelectSeq(requestDataByComponent(component),
            LAMBDA entry : options[entry.key] # False)

ExpectedForComponent(component, options) ==
  [i \in 1..Len(KeptKeys(component, options)) |->
     ResponseFor(KeptKeys(component, options)[i], options)]

FalseKeys(component, options) ==
  {i \in 1..Len(requestDataByComponent(component)) :
     options[requestDataByComponent(component)[i].key] = False}

\* The series a fold returns: the last one created, or the one it started
\* from when it queued nothing.
Returned(from) == IF Len(series') > Len(series) THEN Len(series') ELSE from

\* C16: respondForComponent() returns a series whose queue is the receiver's
\* queue followed, in declared key order, by one response per key: the
\* default, the override function, a Problem response with the code for a
\* number, and none for false; the number of responses appended is the number
\* of declared keys minus the number of keys overridden with false.
C16_RespondForComponent ==
  [][call'.method = "respondForComponent"
       => LET r == call'.receiver
              component == call'.argument
              options == call'.options
              appended == ExpectedForComponent(component, options)
          IN /\ thrown' = ""
             /\ Queue(series', arrays', Returned(r))
                  = Queue(series, arrays, r) \o appended
             /\ Len(Queue(series', arrays', Returned(r)))
                  - Len(Queue(series, arrays, r))
                  = Len(requestDataByComponent(component))
                      - Cardinality(FalseKeys(component, options))]_vars

\* respondForComponent() with false for the first key and a number for the
\* second, on a series that already had a response queued.
C16_Witness ==
  /\ call.method = "respondForComponent"
  /\ call.argument = 1
  /\ call.options[1] = False
  /\ call.options[2] = Number(4041)
  /\ thrown = ""
  /\ Queue(series, arrays, call.receiver) = <<Throws>>
  /\ Queue(series, arrays, Len(series)) = <<Throws, ProblemCode(4041)>>

\* The responses respondFor() appends for the components a location matches,
\* from the component at index `i` on.
RECURSIVE ExpectedFrom(_, _, _)
ExpectedFrom(components, i, options) ==
  IF i > Len(components) THEN <<>>
  ELSE ExpectedForComponent(components[i], options)
         \o ExpectedFrom(components, i + 1, options)

ExpectedForRoute(location, options) ==
  ExpectedFrom(routeComponents(location), 1, options)

----------------------------------------------------------------------------
(* Errors of hooks and of response callbacks (Spec).                        *)

BeforeAnyResponseError == "beforeAnyResponse() callback threw an error"
BeforeEachResponseError == "beforeEachResponse() callback threw an error"
ResponseCallbackError == "a response callback threw an error"

\* The rejections of the steps before _checkStateAfterWait(): the then()
\* callbacks after them, _checkStateAfterWait() included, do not run.
BeforeVerify ==
  {"another series is in progress", "mount() threw an error",
   "a request was sent before the request() callback was run",
   "request() callback threw an error"}

HookError(s) ==
  ctx[s].errorFromBeforeAnyResponse \/ ctx[s].errorFromBeforeEachResponse

\* A hook has just thrown for a link of series s.
HookThrows(s) ==
  \/ ~ctx[s].errorFromBeforeAnyResponse /\ ctx'[s].errorFromBeforeAnyResponse
  \/ ~ctx[s].errorFromBeforeEachResponse
       /\ ctx'[s].errorFromBeforeEachResponse

\* The step a link is at moves on from the hook that ran to the next step.
MovesOn(s, i) ==
  \/ /\ ctx[s].chain[i].phase = "beforeAnyResponse"
     /\ ctx'[s].chain[i].phase = "afterAny"
  \/ /\ ctx[s].chain[i].phase = "beforeEachResponse"
     /\ ctx'[s].chain[i].phase = "afterEach"

\* The error of a hook is kept and the chain of the request goes on.
Captured ==
  \A s \in Series : HookThrows(s) =>
    /\ pc' = pc
    /\ err' = err
    /\ \E i \in Links(s) : MovesOn(s, i)
    /\ \A i \in Links(s) :
         /\ ctx'[s].chain[i].settled = ctx[s].chain[i].settled
         /\ ctx'[s].chain[i].response = ctx[s].chain[i].response

\* C18 as stated: a series in which a hook threw is rejected with the error
\* of a hook.
C18_AsStated ==
  \A s \in Series : (Executed(s) /\ HookError(s)) =>
    err[s] \in {BeforeAnyResponseError, BeforeEachResponseError}

\* What holds in every state of a series in which a hook threw.
HookErrorKept ==
  \A s \in Series : HookError(s) =>
    /\ pc[s] # "callback"
    /\ \A i \in Links(s) :
         (ctx[s].chain[i].phase = "responded"
            /\ CallbackOf(s, i).ret # "throw")
           => /\ ctx[s].chain[i].response = Wrapped(CallbackOf(s, i))
              /\ ctx[s].chain[i].settled # "pending"
    /\ Executed(s) =>
         /\ \A i \in Links(s) : ctx[s].chain[i].phase = "responded"
         /\ err[s] \notin {"", "afterResponses() callback threw an error"}
         /\ (err[s] \notin BeforeVerify /\ ~ctx[s].errorFromBeforeEachNav)
              => err[s] = IF ctx[s].errorFromBeforeAnyResponse
                            THEN BeforeAnyResponseError
                            ELSE BeforeEachResponseError

\* C18 (amended): an error of beforeAnyResponse() or beforeEachResponse() is
\* kept and the chain of the request goes on to the next step, so the request
\* still receives its queued response; the completion callback does not run
\* and the series is rejected: with the error of an earlier step if one
\* rejected before _checkStateAfterWait(), else with the error of
\* beforeEachNav() if one was captured, else with the error of
\* beforeAnyResponse() if it threw, else with that of beforeEachResponse().
C18_HookErrorCaptured == []HookErrorKept /\ [][Captured]_vars

\* beforeEachResponse() threw, the request was answered with status 200 and
\* the series was rejected with the error of the hook.
C18_Witness ==
  \E s \in Series :
    /\ Executed(s)
    /\ ctx[s].errorFromBeforeEachResponse
    /\ ~ctx[s].errorFromBeforeAnyResponse
    /\ err[s] = BeforeEachResponseError
    /\ Len(ctx[s].chain) = 1
    /\ ctx[s].chain[1].settled = "fulfilled"
    /\ ctx[s].chain[1].response.status = 200

\* The response callback of link i of series s has thrown.
CallbackThrew(s, i) ==
  ctx[s].chain[i].phase = "responded" /\ CallbackOf(s, i).ret = "throw"

\* C19 as stated: a series in which a response callback threw is rejected
\* with 'a response callback threw an error'.
C19_AsStated ==
  \A s \in Series : (Executed(s) /\ ctx[s].errorFromResponse # Null) =>
    err[s] = ResponseCallbackError

\* C19 (amended): a request whose response callback throws is rejected with
\* the exception, not with a response, and no response is logged for it; the
\* exception kept is that of the first request whose callback threw; the
\* completion callback does not run and the series is rejected: with the
\* error of an earlier step if one rejected before _checkStateAfterWait(),
\* else with the error of a hook if one was captured, else with 'a response
\* callback threw an error'.
C19_ResponseCallbackThrows ==
  \A s \in Series :
    LET first == ctx[s].errorFromResponse IN
      /\ \A i \in Links(s) : CallbackThrew(s, i) =>
           /\ ctx[s].chain[i].settled = "rejected"
           /\ ctx[s].chain[i].response = NoResponse
           /\ first # Null
           /\ first <= ctx[s].chain[i].request
      /\ Cardinality({k \in 1..Len(ctx[s].requestResponseLog) :
                        ctx[s].requestResponseLog[k].entry = "response"})
           = Cardinality({i \in Links(s) :
                            /\ ctx[s].chain[i].phase = "responded"
                            /\ ~CallbackThrew(s, i)})
      /\ first # Null =>
           /\ first \in Links(s)
           /\ CallbackThrew(s, first)
           /\ pc[s] # "callback"
           /\ Executed(s) =>
                /\ err[s] \notin {"", "afterResponses() callback threw an error"}
                /\ (/\ err[s] \notin BeforeVerify
                    /\ ~ctx[s].errorFromBeforeEachNav
                    /\ ~HookError(s))
                     => err[s] = ResponseCallbackError

\* The callbacks of two requests threw: both requests were rejected, the
\* exception of the first is the one kept, and the series was rejected with
\* 'a response callback threw an error'.
C19_Witness ==
  \E s \in Series :
    /\ Executed(s)
    /\ Len(ctx[s].chain) = 2
    /\ CallbackThrew(s, 1)
    /\ CallbackThrew(s, 2)
    /\ ctx[s].chain[2].settled = "rejected"
    /\ ctx[s].errorFromResponse = 1
    /\ err[s] = ResponseCallbackError

\* The stub of series s has just received a request.
RequestArrives(s) ==
  /\ Len(ctx'[s].requestResponseLog) = Len(ctx[s].requestResponseLog) + 1
  /\ ctx'[s].requestResponseLog[Len(ctx'[s].requestResponseLog)].entry
       = "request"

\* Every queued response of series s has been handed to a request.
Exhausted(s) == ctx[s].count = Len(Responses(s))

\* C20: a request that arrives when every queued response has been consumed
\* is only logged and sets requestWithoutResponse: no slot is consumed, no
\* promise is chained for it, so no hook and no response callback runs for
\* it, and nothing else changes; the responses stay exhausted, so every later
\* request of the series is rejected in the same way.  The flag is set only
\* when more requests arrived than responses were queued.
C20_RequestWithoutResponse ==
  [][\A s \in Series :
       /\ (RequestArrives(s) /\ Exhausted(s)) =>
            /\ ctx'[s] = [ctx[s] EXCEPT
                 !.requestResponseLog = ctx'[s].requestResponseLog,
                 !.requestWithoutResponse = TRUE]
            /\ Exhausted(s)'
            /\ pc' = pc
            /\ err' = err
       /\ (RequestArrives(s) /\ ~Exhausted(s)) =>
            /\ ctx'[s].count = ctx[s].count + 1
            /\ Len(ctx'[s].chain) = Len(ctx[s].chain) + 1
            /\ ctx'[s].requestWithoutResponse = ctx[s].requestWithoutResponse
       /\ ctx'[s].requestWithoutResponse =>
            /\ Exhausted(s)'
            /\ Cardinality(Requests(s))' > Len(Responses(s))
            /\ Len(ctx'[s].chain) = Len(Responses(s))]_vars

\* With one response queued, three requests arrived: the first consumed the
\* response and the two after it were rejected.
C20_Witness ==
  \E s \in Series :
    /\ Len(Responses(s)) = 1
    /\ Cardinality(Requests(s)) = 3
    /\ ctx[s].count = 1
    /\ Len(ctx[s].chain) = 1
    /\ ctx[s].chain[1].phase = "responded"
    /\ ctx[s].requestWithoutResponse

----------------------------------------------------------------------------
(* The calls of the hooks (Spec).                                           *)

\* The calls of one hook in series s, in the order they were made.
CallsOf(s, hook) ==
  SelectSeq(ctx[s].hookCalls, LAMBDA called : called.hook = hook)

\* Link i of series s is past the step of beforeEachResponse().
PastEach(s, i) == ctx[s].chain[i].phase \in {"afterEach", "responded"}

\* C21 as stated: for every response delivered in a series that has a
\* beforeEachResponse hook, the hook was called exactly once for the request
\* the response answers, with its index.
C21_AsStated ==
  \A s \in Series : \A i \in Links(s) :
    (ctx[s].chain[i].phase = "responded"
       /\ series[s].beforeEachResponse # Null)
      => Cardinality({k \in 1..Len(ctx[s].hookCalls) :
                        ctx[s].hookCalls[k]
                          = HookCall("beforeEachResponse",
                                     ctx[s].chain[i].request, i - 1)}) = 1

\* What holds of the calls made so far in every state.
HooksCalledOnce ==
  \A s \in Series :
    LET any == CallsOf(s, "beforeAnyResponse")
        each == CallsOf(s, "beforeEachResponse")
    IN  /\ series[s].beforeAnyResponse = Null => any = <<>>
        /\ series[s].beforeEachResponse = Null => each = <<>>
        /\ ctx[s].chain = <<>> => ctx[s].hookCalls = <<>>
        /\ Len(any) <= 1
        /\ any # <<>> => ctx[s].hookCalls[1].hook = "beforeAnyResponse"
        /\ (ctx[s].chain # <<>> /\ series[s].beforeAnyResponse # Null
              /\ ctx[s].chain[1].phase # "chained") => Len(any) = 1
        /\ Len(each) <= Len(ctx[s].chain)
        /\ \A k \in 1..Len(each) :
             /\ each[k] = HookCall("beforeEachResponse",
                                   ctx[s].chain[k].request, k - 1)
             /\ ctx[s].chain[k].phase # "chained"
        /\ \A i \in Links(s) :
             (series[s].beforeEachResponse # Null /\ PastEach(s, i))
               => \/ i <= Len(each)
                  \/ /\ ctx[s].errorFromBeforeEachResponse
                     /\ Len(each) \in 1..(i - 1)

\* A hook is called for a request whose response callback has not run.
CalledBeforeResponse ==
  \A s \in Series :
    Len(ctx'[s].hookCalls) > Len(ctx[s].hookCalls)
      => \E i \in Links(s) :
           /\ ctx[s].chain[i].phase \notin {"afterEach", "responded"}
           /\ ctx'[s].chain[i].phase
                \in {"beforeAnyResponse", "beforeEachResponse"}
           /\ ctx'[s].chain[i].settled = "pending"
           /\ \A j \in Links(s) : j >= i => ctx[s].chain[j].settled = "pending"

\* C21 (amended): beforeAnyResponse() is called at most once in a series,
\* before every other hook call and before the first response callback, and
\* never when no request was accepted; beforeEachResponse() is called at most
\* once for a request, with the request and its index, before the response
\* callback of the request, for every request in turn until a call throws:
\* after that it is not called for the requests that follow.
C21_HooksBeforeResponses == []HooksCalledOnce /\ [][CalledBeforeResponse]_vars

\* beforeAnyResponse() was called once, then beforeEachResponse() for the
\* first request and for the second, and both responses were delivered.
C21_Witness ==
  \E s \in Series :
    /\ Len(ctx[s].chain) = 2
    /\ ctx[s].chain[2].phase = "responded"
    /\ ctx[s].hookCalls
         = <<HookCall("beforeAnyResponse", 0, 0),
             HookCall("beforeEachResponse", ctx[s].chain[1].request, 0),
             HookCall("beforeEachResponse", ctx[s].chain[2].request, 1)>>

----------------------------------------------------------------------------
(* The request/response log (SpecLog).                                      *)

\* The places of the log that hold a response.
ResponseEntries(s) ==
  {k \in 1..Len(ctx[s].requestResponseLog) :
     ctx[s].requestResponseLog[k].entry = "response"}

\* The links whose response callback returned a response, in their order.
Produced(s) ==
  SelectSeq([i \in Links(s) |-> i],
            LAMBDA i : ctx[s].chain[i].phase = "responded"
                         /\ ~CallbackThrew(s, i))

\* The place of the k-th entry of one kind in the log.
RECURSIVE Place(_, _, _, _)
Place(log, kind, k, from) ==
  IF log[from].entry = kind
    THEN IF k = 1 THEN from ELSE Place(log, kind, k - 1, from + 1)
    ELSE Place(log, kind, k, from + 1)

\* The steps before _checkStateAfterWait() went well and mount() sent no
\* request.
RanToVerify(s) ==
  err[s] \notin {"mount() threw an error", "request() callback threw an error",
                 "a request was sent before the request() callback was run"}

\* C22: a series with a mount and a request() callback that sent one request,
\* with one success response queued and the callback c => c, is fulfilled and
\* its log is the request followed by its response; in every state the log
\* holds each request the stub received, in the order they were sent, and
\* each response a callback produced, in the order of the requests they
\* answer and after the entry of the request answered.
C22_RequestResponseLog ==
  \A s \in Series :
    LET log == ctx[s].requestResponseLog
        produced == Produced(s)
    IN  /\ (/\ Executed(s)
            /\ series[s].mount # Null
            /\ Responses(s) = <<PlainValue(1)>>
            /\ Cardinality(Requests(s)) = 1
            /\ completion[s] = "identity"
            /\ RanToVerify(s))
             => /\ err[s] = ""
                /\ log = <<LogRequest(1), LogResponse(Wrapped(PlainValue(1)))>>
        /\ Cardinality(Requests(s)) >= Len(ctx[s].chain)
        /\ ctx[s].requestWithoutResponse
             => Cardinality(Requests(s)) > Len(ctx[s].chain)
        /\ \A k \in 1..Cardinality(Requests(s)) :
             log[Place(log, "request", k, 1)].n = k
        /\ Cardinality(ResponseEntries(s)) = Len(produced)
        /\ \A k \in 1..Len(produced) :
             LET link == ctx[s].chain[produced[k]]
                 at == Place(log, "response", k, 1)
             IN  /\ log[at].status = link.response.status
                 /\ log[at].data = link.response.data
                 /\ at > Place(log, "request", link.request, 1)

\* One request, one response: the series of the first part was fulfilled.
C22_Witness ==
  \E s \in Series :
    /\ Executed(s)
    /\ series[s].mount # Null
    /\ Responses(s) = <<PlainValue(1)>>
    /\ completion[s] = "identity"
    /\ err[s] = ""
    /\ Len(ctx[s].requestResponseLog) = 2

\* A series with two queued responses sent one request from its request()
\* callback, the first response callback returned, and the series finished.
OneRequestTwoResponses(s) ==
  /\ Executed(s)
  /\ Len(Responses(s)) = 2
  /\ Cardinality(Requests(s)) = 1
  /\ RanToVerify(s)
  /\ ctx[s].errorFromResponse = Null

\* C23 as stated: the series is rejected with 'response without request' and
\* its log holds one request and two responses.
C23_AsStated ==
  \A s \in Series : OneRequestTwoResponses(s) =>
    /\ err[s] = ResponseWithoutRequest
    /\ Cardinality(Requests(s)) = 1
    /\ Cardinality(ResponseEntries(s)) = 2

\* C23 (amended): the series is rejected with 'response without request';
\* its log holds the request and the one response that was produced for it:
\* the second queued response is never produced and is not in the log.
C23_ResponseWithoutRequest ==
  \A s \in Series : OneRequestTwoResponses(s) =>
    /\ err[s] = ResponseWithoutRequest
    /\ ctx[s].count = 1
    /\ ctx[s].responseWithoutRequest
    /\ ctx[s].requestResponseLog
         = <<LogRequest(1), LogResponse(Wrapped(Responses(s)[1]))>>

\* Two responses, the second a Problem, and one request: the series was
\* rejected and its log holds the request and the first response.
C23_Witness ==
  \E s \in Series :
    /\ OneRequestTwoResponses(s)
    /\ Responses(s) = <<PlainValue(1), ProblemCode(4041)>>
    /\ err[s] = ResponseWithoutRequest
    /\ Len(ctx[s].requestResponseLog) = 2

----------------------------------------------------------------------------
(* Properties of the request mixin (SpecRequest).                           *)

\* The first handler request() chained on the promise of the transport runs.
Arrives == requestMixin.pc = "answered" /\ requestMixin'.pc # "answered"

\* C24: when the handler of a response runs and the current route is not the
\* route request() kept, the promise of request() is rejected with 'route
\* change', whether the transport fulfilled or rejected its promise, and
\* nothing else happens: no alert is committed, fulfillProblem is not called,
\* the error is not logged, awaitingResponse is not reset by the handler and
\* no response is returned.
C24_RouteChange ==
  [][(Arrives /\ RouteChanged)
       => /\ requestMixin' = [requestMixin EXCEPT !.pc = "settled",
                                                  !.settled = "route change"]
          /\ ~requestMixin'.consulted
          /\ ~requestMixin'.logged
          /\ store' = store
          /\ store'.alert = ""]_vars

\* The transport fulfilled its promise after a navigation, and the promise of
\* request() was rejected with 'route change'.
C24_Witness ==
  /\ requestMixin.settled = "route change"
  /\ requestMixin.transport = "response"
  /\ requestMixin.currentRoute = 1
  /\ store.currentRoute = 2
  /\ store.alert = ""

----------------------------------------------------------------------------
(* Properties of lifecycle.js (SpecLifecycle).                              *)

\* The options of the call are supported for the component mounted.
Supported(called) == ~(called.argument = "i18n" /\ called.options.router)

\* At most one element is attached, and it belongs to a component that is
\* still to destroy.
OneAttached ==
  /\ Cardinality(lifecycle.document) <= 1
  /\ \A id \in lifecycle.document :
       \E i \in 1..Len(lifecycle.componentsToDestroy) :
         lifecycle.componentsToDestroy[i].id = id

\* What a call of mount() with attachToDocument, or of
\* destroyMarkedComponents(), does.
MountsOneAtATime ==
  /\ (call'.method = "mount" /\ call'.options.attachToDocument
        /\ Supported(call'))
       => IF lifecycle.document # {}
            THEN /\ thrown'
                      = "only one component can be attached to the document"
                 /\ lifecycle' = lifecycle
            ELSE call'.options.requestData # "problem"
                   => /\ thrown' = ""
                      /\ lifecycle'.document = {lifecycle'.wrappers}
  /\ call'.method = "destroyMarkedComponents"
       => /\ lifecycle'.document = {}
          /\ lifecycle'.componentsToDestroy = <<>>

\* C25: under any sequence of mount() and destroyMarkedComponents() calls at
\* most one mounted component is attached to the document; mount() with
\* attachToDocument (and options supported for the component) throws 'only
\* one component can be attached to the document' while a component mounted
\* before is attached, and attaches the component when none is, as after
\* destroyMarkedComponents(), which detaches every component.
C25_OneAttachedComponent == []OneAttached /\ [][MountsOneAtATime]_vars

\* The third component mounted is attached to the document: the two mounted
\* before it have been destroyed.
C25_Witness ==
  /\ call.method = "mount"
  /\ thrown = ""
  /\ lifecycle.wrappers = 3
  /\ lifecycle.document = {3}
  /\ Len(lifecycle.componentsToDestroy) = 1

----------------------------------------------------------------------------
(* The wait for responses (Spec).                                           *)

----------------------------------------------------------------------------
(* The navigation guard of a series (SpecGuard).                            *)

BeforeEachNavError == "beforeEachNav() callback threw an error"

\* The router has just run a navigation that series s pushed or that a guard
\* redirected to, and confirmed or aborted it.
Navigates(s) ==
  /\ Len(ctx'[s].events) = Len(ctx[s].events) + 1
  /\ ctx'[s].events[Len(ctx'[s].events)] \in {"confirmed", "aborted"}

\* The route that navigation leads to.
NavigatedTo(s) ==
  IF pc[s] = "redirected" THEN RedirectRoute ELSE RouteOf(series[s].location)

\* C27 as stated: every navigation made while a series with a guard is in
\* progress calls the guard, and a series whose guard threw is rejected with
\* the error of beforeEachNav().
C27_AsStated ==
  /\ [](\A g \in Series :
          (Executed(g) /\ ctx[g].errorFromBeforeEachNav)
            => err[g] = BeforeEachNavError)
  /\ [][\A s \in Series : Navigates(s) =>
          \A g \in Series :
            (ctx[g].guardInstalled /\ ctx[g].inProgress)
              => Len(ctx'[g].guardCalls) = Len(ctx[g].guardCalls) + 1]_vars

\* What a navigation does with the guard of each series: it is called, with
\* this._component and the two routes, if the series is in progress and its
\* guard has not thrown; an error it throws is kept and rejects nothing.
GuardInvoked ==
  /\ \A s \in Series : Navigates(s) =>
       \A g \in Series :
         IF /\ series[g].beforeEachNavGuard # Null
            /\ pc[g] \notin {"config", "init", "beforeEachNav", "done"}
            /\ ctx[g].inProgress
            /\ ~ctx[g].errorFromBeforeEachNav
           THEN /\ ctx'[g].guardCalls
                     = Append(ctx[g].guardCalls,
                              GuardCall(ctx[g].component, NavigatedTo(s),
                                        store.currentRoute))
                /\ err'[g] = err[g]
                /\ g # s => pc'[g] = pc[g]
           ELSE /\ ctx'[g].guardCalls = ctx[g].guardCalls
                /\ ctx'[g].errorFromBeforeEachNav
                     = ctx[g].errorFromBeforeEachNav
  /\ (\A s \in Series : ~Navigates(s)) =>
       \A g \in Series :
         /\ ctx'[g].guardCalls = ctx[g].guardCalls
         /\ ctx'[g].errorFromBeforeEachNav = ctx[g].errorFromBeforeEachNav

\* What holds in every state of a series whose guard threw.
GuardErrorKept ==
  \A s \in Series : ctx[s].errorFromBeforeEachNav =>
    /\ pc[s] # "callback"
    /\ ctx[s].guardCalls # <<>>
    /\ Executed(s) =>
         /\ err[s] \notin {"", "afterResponses() callback threw an error"}
         /\ err[s] \notin BeforeVerify => err[s] = BeforeEachNavError

\* C27 (amended): while a series with a navigation guard is in progress,
\* every navigation of the router calls the guard with the component of the
\* series and the routes to and from, until a call throws: the error is kept,
\* the navigation goes on to be confirmed or aborted as the router decides,
\* and the guard is not called for the navigations that follow; the
\* completion callback does not run and the series is rejected, with the
\* error of an earlier step if one rejected before _checkStateAfterWait(),
\* else with 'beforeEachNav() callback threw an error'.  Once the series has
\* finished its guard is not called again, whatever navigates.
C27_GuardDuringSeries == []GuardErrorKept /\ [][GuardInvoked]_vars

\* The guard of the first series threw when the navigation pushed was
\* aborted; the redirect was confirmed without calling the guard again, and
\* the series was rejected with the error of beforeEachNav().
C27_Witness ==
  \E s \in Series :
    /\ Executed(s)
    /\ ctx[s].events = <<"push", "mount", "aborted", "confirmed">>
    /\ ctx[s].guardCalls = <<GuardCall(s, RouteOf(series[s].location), 1)>>
    /\ ctx[s].errorFromBeforeEachNav
    /\ err[s] = BeforeEachNavError

----------------------------------------------------------------------------
(* Navigation and mount (SpecNav).                                          *)

\* What the router does with a navigation, as the series sees it.
Outcomes == {<<>>, <<"aborted">>, <<"confirmed">>, <<"aborted", "confirmed">>}
Confirmations == {<<"confirmed">>, <<"aborted", "confirmed">>}

MountError == "mount() threw an error"

\* What has been pushed, mounted, aborted and confirmed for series s, in
\* the order it happened: the navigation is pushed first, the component is
\* mounted next, and the router confirms last.
EventsInOrder(s) ==
  LET pushed == IF series[s].location # Null THEN <<"push">> ELSE <<>>
      mounted == IF series[s].mount # Null THEN <<"mount">> ELSE <<>>
  IN  \/ ctx[s].events = <<>>
      \/ \E outcome \in Outcomes :
           /\ outcome # <<>> => series[s].location # Null
           /\ \/ ctx[s].events = pushed \o mounted \o outcome
              \/ /\ err[s] = MountError
                 /\ ctx[s].events = pushed \o outcome

\* Once the step of _navigateAndMount() has fulfilled, the component is
\* mounted if there is a mount option, and the navigation has been pushed
\* and confirmed if there is a location; nothing navigated if there is none.
NavigatedAndMounted ==
  \A s \in Series :
    /\ EventsInOrder(s)
    /\ pc[s] \in {"settle", "request", "requesting"} =>
         LET pushed == IF series[s].location # Null THEN <<"push">> ELSE <<>>
             mounted == IF series[s].mount # Null THEN <<"mount">> ELSE <<>>
         IN  /\ ctx[s].component = IF series[s].mount # Null THEN s ELSE Null
             /\ IF series[s].location # Null
                  THEN /\ lastNavigationWasConfirmed
                       /\ \E confirmation \in Confirmations :
                            ctx[s].events = pushed \o mounted \o confirmation
                  ELSE /\ ctx[s].events = mounted
                       /\ store = InitialStore
                       /\ ~lastNavigationWasConfirmed

\* The request step starts from the step after the navigation, never while
\* the navigation is awaited.
RequestAfterConfirmation ==
  \A s \in Series :
    (pc'[s] \in {"request", "requesting"} /\ pc'[s] # pc[s])
      => /\ pc[s] \in {"settle", "request"}
         /\ series[s].location # Null
              => ctx[s].events[Len(ctx[s].events)] = "confirmed"

\* C28: with a location and a mount, the navigation is pushed first, the
\* component is mounted next, before the router confirms the navigation, and
\* the request step does not start until the navigation is confirmed; with
\* a location only the series navigates and waits for the confirmation; with
\* a mount only it mounts and nothing navigates.
C28_NavigateAndMount == []NavigatedAndMounted /\ [][RequestAfterConfirmation]_vars

\* The request() callback runs in a series with a location and a mount: the
\* navigation was pushed, the component mounted, the navigation confirmed.
C28_Witness ==
  \E s \in Series :
    /\ pc[s] = "requesting"
    /\ ctx[s].events = <<"push", "mount", "confirmed">>
    /\ ctx[s].component = s
    /\ lastNavigationWasConfirmed

----------------------------------------------------------------------------
(* The check before the request() callback (SpecNav).                       *)

RequestBeforeCallbackError ==
  "a request was sent before the request() callback was run"

\* The request step of series s runs.
RequestStep(s) == pc[s] = "request" /\ pc'[s] # "request"

\* The request step of a series with a request() callback: if the stub has
\* logged a request, the step rejects and the callback is not called.
RejectsBeforeCallback ==
  \A s \in Series : (RequestStep(s) /\ series[s].request # Null) =>
    IF ctx[s].requestResponseLog # <<>>
      THEN /\ err'[s] = RequestBeforeCallbackError
           /\ pc'[s] = "wait"
      ELSE /\ err'[s] = err[s]
           /\ pc'[s] = "requesting"

\* A series rejected by the check does not call the request() callback, and
\* when its promise has settled the transport is restored and the lock
\* released.
RestoredAfterRejection ==
  \A s \in Series : err[s] = RequestBeforeCallbackError =>
    /\ pc[s] \in {"wait", "restoreHttp", "cleanUp", "done"}
    /\ ctx[s].requestResponseLog # <<>>
    /\ pc[s] \in {"cleanUp", "done"} => http = ctx[s].previousHttp
    /\ pc[s] = "done" => (~inProgress /\ ~ctx[s].inProgress)

\* C29: when a series has a request() callback and the stub has received a
\* request before the request step, from the navigation or the mount, the
\* series is rejected with 'a request was sent before the request() callback
\* was run' and the callback is not called; the transport is restored and
\* the lock released all the same.
C29_RequestBeforeCallback ==
  []RestoredAfterRejection /\ [][RejectsBeforeCallback]_vars

\* A request was sent while the navigation was awaited; the series was
\* rejected at the request step, the transport restored, the lock released.
C29_Witness ==
  \E s \in Series :
    /\ pc[s] = "done"
    /\ err[s] = RequestBeforeCallbackError
    /\ series[s].location # Null
    /\ Len(ctx[s].requestResponseLog) >= 1
    /\ http = OriginalHttp
    /\ ~inProgress

----------------------------------------------------------------------------
(* The promise of _navigate() (SpecGuard).                                  *)

Awaiting == {"navigating", "redirected"}

\* The promise of _navigate() resolves: when the router confirms the
\* navigation pushed, or, after the router aborted it, when the store says
\* that the last navigation was confirmed.
ResolvesOnConfirmation ==
  \A s \in Series : (pc[s] \in Awaiting /\ pc'[s] \notin Awaiting) =>
    /\ pc'[s] = "settle"
    /\ err'[s] = err[s]
    /\ IF pc[s] = "navigating"
         THEN /\ Navigates(s)
              /\ ctx'[s].events[Len(ctx'[s].events)] = "confirmed"
              /\ lastNavigationWasConfirmed'
         ELSE /\ lastNavigationWasConfirmed
              /\ ctx[s].events[Len(ctx[s].events)] = "confirmed"

\* A series whose navigation was aborted stays at the step of _navigate(),
\* the flag false, until the navigation the redirect led to is confirmed.
ConfirmedBeforeLaterSteps ==
  \A s \in Series :
    (\E k \in 1..Len(ctx[s].events) : ctx[s].events[k] = "aborted") =>
      IF ctx[s].events[Len(ctx[s].events)] = "confirmed"
        THEN pc[s] \notin {"navigateAndMount", "navigating"}
        ELSE pc[s] = "redirected" /\ ~lastNavigationWasConfirmed

----------------------------------------------------------------------------
(* beforeEachResponse() after it threw (Spec).                              *)

\* The calls of beforeEachResponse() a context has recorded.
EachCalls(c) ==
  SelectSeq(c.hookCalls, LAMBDA called : called.hook = "beforeEachResponse")

\* Once the error of beforeEachResponse() is kept, the hook is not called
\* again and the error stays; the error is set by a call that was made.
NotCalledAfterError ==
  \A s \in Series :
    /\ ctx[s].errorFromBeforeEachResponse
         => /\ ctx'[s].errorFromBeforeEachResponse
            /\ EachCalls(ctx'[s]) = EachCalls(ctx[s])
            /\ \A i \in Links(s) :
                 ctx'[s].chain[i].phase # "beforeEachResponse"
    /\ (~ctx[s].errorFromBeforeEachResponse
          /\ ctx'[s].errorFromBeforeEachResponse)
         => \E i \in Links(s) :
              /\ ctx[s].chain[i].phase = "beforeEachResponse"
              /\ ctx'[s].chain[i].phase = "afterEach"
              /\ Len(EachCalls(ctx[s])) = i

\* The call that threw is the last call made, and every request answered
\* after it has the response of its own callback.
DeliveredAfterError ==
  \A s \in Series : ctx[s].errorFromBeforeEachResponse =>
    LET threw == Len(EachCalls(ctx[s]))
    IN  /\ threw \in Links(s)
        /\ ctx[s].chain[threw].phase \in {"afterEach", "responded"}
        /\ \A i \in Links(s) :
             (i > threw /\ ctx[s].chain[i].phase = "responded"
                /\ Responses(s)[ctx[s].chain[i].callback].ret # "throw")
               => /\ ctx[s].chain[i].response
                       = Wrapped(Responses(s)[ctx[s].chain[i].callback])
                  /\ ctx[s].chain[i].settled # "pending"
        /\ pc[s] \in {"checkState", "cleanUp", "done"}
             => \A i \in Links(s) : ctx[s].chain[i].phase = "responded"

\* C31: once beforeEachResponse() has thrown for a response of a series it
\* is not called for any later response of the series, so the error kept is
\* that of the first call that threw; the later responses are delivered.
C31_NotCalledAfterError == []DeliveredAfterError /\ [][NotCalledAfterError]_vars

\* The hook threw for the first of two requests and was not called for the
\* second, which received its response.
C31_Witness ==
  \E s \in Series :
    /\ ctx[s].errorFromBeforeEachResponse
    /\ Len(ctx[s].chain) = 2
    /\ Len(EachCalls(ctx[s])) = 1
    /\ ctx[s].chain[2].phase = "responded"
    /\ ctx[s].chain[2].settled = "fulfilled"

----------------------------------------------------------------------------
(* Responses after a failing response (Spec).                               *)

\* The request of link i of series s was rejected: its response callback
\* threw, or returned a response whose status is not 2xx.
Failed(s, i) ==
  ctx[s].chain[i].phase = "responded" /\ ctx[s].chain[i].settled = "rejected"

\* What the request of link i receives from its own response callback.
OwnOutcome(s, i) ==
  LET callback == Responses(s)[ctx[s].chain[i].callback]
  IN  IF callback.ret = "throw"
        THEN /\ ctx[s].chain[i].settled = "rejected"
             /\ ctx[s].chain[i].response = NoResponse
        ELSE /\ ctx[s].chain[i].response = Wrapped(callback)
             /\ ctx[s].chain[i].settled
                  = IF Wrapped(callback).status >= 200
                       /\ Wrapped(callback).status < 300
                    THEN "fulfilled" ELSE "rejected"

\* C32: a request that is answered after a request of the series failed is
\* fulfilled or rejected according to its own queued response alone.
C32_LaterResponsesUnaffected ==
  \A s \in Series : \A i \in Links(s) :
    (ctx[s].chain[i].phase = "responded"
       /\ \E j \in Links(s) : j < i /\ Failed(s, j))
      => OwnOutcome(s, i)

\* The first request was answered with a Problem and rejected, the second
\* was answered after it and fulfilled.
C32_Witness ==
  \E s \in Series :
    /\ Len(ctx[s].chain) = 2
    /\ Failed(s, 1)
    /\ ctx[s].chain[1].response.status >= 400
    /\ ctx[s].chain[2].phase = "responded"
    /\ ctx[s].chain[2].settled = "fulfilled"

----------------------------------------------------------------------------
(* The completion callback (Spec).                                          *)

CallbackError == "afterResponses() callback threw an error"

\* _checkStateAfterWait() finds nothing to throw for a context.
NothingFound(c) ==
  /\ ~c.errorFromBeforeEachNav
  /\ ~c.errorFromBeforeAnyResponse
  /\ ~c.errorFromBeforeEachResponse
  /\ c.errorFromResponse = Null
  /\ ~c.requestWithoutResponse
  /\ ~c.responseWithoutRequest

\* The completion callback has been called at most once, and if it has, no
\* step before it rejected and nothing was found.
CalledAtMostOnce ==
  \A s \in Series :
    /\ ctx[s].callbackCalls <= 1
    /\ ctx[s].callbackCalls = 1
         => /\ err[s] \in {"", CallbackError}
            /\ NothingFound(ctx[s])
            /\ Cardinality(Requests(s)) = Len(Responses(s))
            /\ pc[s] \in {"cleanUp", "done"}
    /\ (pc[s] \in {"cleanUp", "done"} /\ err[s] \notin {"", CallbackError})
         => ctx[s].callbackCalls = 0

\* The completion callback is called in the step after the one in which
\* _checkStateAfterWait() returned, by a series that no step has rejected.
CalledAfterVerify ==
  \A s \in Series :
    /\ (pc'[s] = "callback" /\ pc[s] # "callback")
         => /\ pc[s] = "checkState"
            /\ err[s] = ""
            /\ NothingFound(ctx[s])
    /\ ctx'[s].callbackCalls # ctx[s].callbackCalls
         => /\ pc[s] = "callback"
            /\ err[s] = ""
            /\ ctx[s].callbackCalls = 0
    /\ (pc[s] = "checkState" /\ err[s] # "") => pc'[s] # "callback"

\* C33: the completion callback is called at most once in an execution of a
\* series, and only if no step before it rejected and
\* _checkStateAfterWait() found no kept error of the guard, of a hook or of
\* a response callback, no request without response and no response without
\* request.
C33_CallbackOnce == []CalledAtMostOnce /\ [][CalledAfterVerify]_vars

\* The callback was called once, in a series with both hooks that answered
\* two requests.
C33_Witness ==
  \E s \in Series :
    /\ ctx[s].callbackCalls = 1
    /\ pc[s] = "done"
    /\ Len(ctx[s].chain) = 2
    /\ Len(ctx[s].hookCalls) = 3

----------------------------------------------------------------------------
(* awaitingResponse of the request mixin (SpecRequest).                     *)

\* request() has just been called and did not throw.
RequestSent ==
  /\ requestMixin.pc = "idle"
  /\ requestMixin'.pc = "awaiting"

\* awaitingResponse once the promise of request() has settled.
ResetWhenSettled ==
  requestMixin.awaitingResponse # "undefined" =>
    /\ requestMixin.settled \in {"response", "error"}
         => requestMixin.awaitingResponse = "false"
    /\ (requestMixin.pc = "settled" /\ ~RouteChanged)
         => requestMixin.awaitingResponse = "false"

\* awaitingResponse is set when request() is called, and a component that
\* does not define it is left without it.
SetWhenSent ==
  /\ RequestSent
       => requestMixin'.awaitingResponse
            = IF requestMixin.awaitingResponse = "undefined"
                THEN "undefined" ELSE "true"
  /\ requestMixin.awaitingResponse = "undefined"
       => requestMixin'.awaitingResponse = "undefined"
  /\ (requestMixin.awaitingResponse = "true"
        /\ requestMixin'.awaitingResponse = "true"
        /\ requestMixin'.pc = "settled")
       => requestMixin'.settled = "route change"

\* C34: for a component that defines awaitingResponse, request() sets it to
\* true when it is called; it is false whenever the promise of request() is
\* fulfilled and whenever it is rejected with the error of the transport on
\* the route that sent the request, and it is never true once the request
\* has settled on that route.
C34_AwaitingResponse == []ResetWhenSettled /\ [][SetWhenSent]_vars

\* A Problem that fulfillProblem accepts was returned as the response on the
\* route that sent the request, and awaitingResponse is false again.
C34_Witness ==
  /\ requestMixin.pc = "settled"
  /\ requestMixin.settled = "response"
  /\ requestMixin.transport = "problem"
  /\ requestMixin.awaitingResponse = "false"
  /\ ~RouteChanged

----------------------------------------------------------------------------
(* fulfillProblem and the alert of the request mixin (SpecRequest).         *)

\* fulfillProblem is given, the error of the transport holds a Problem and
\* fulfillProblem returns true for it.
ProblemAccepted ==
  requestMixin.transport = "problem" /\ requestMixin.fulfillProblem = "accepts"

\* How a request that the transport rejected has settled on the route that
\* sent it.
FulfilledOrAlerted ==
  (requestMixin.pc = "settled" /\ requestMixin.transport # "response"
     /\ ~RouteChanged)
    => IF ProblemAccepted
         THEN /\ requestMixin.settled = "response"
              /\ store.alert = ""
              /\ ~requestMixin.logged
         ELSE /\ requestMixin.settled = "error"
              /\ store.alert = "danger"
              /\ requestMixin.logged

\* An alert is committed only by the catch() callback, when it throws the
\* error of the transport.
AlertedOnce ==
  store'.alert # store.alert
    => /\ store.alert = ""
       /\ store'.alert = "danger"
       /\ requestMixin.pc = "answered"
       /\ requestMixin.transport # "response"
       /\ ~RouteChanged
       /\ ~ProblemAccepted
       /\ requestMixin'.settled = "error"

\* C35: on the route that sent the request, when the transport rejects with
\* a Problem for which fulfillProblem returns true the promise of request()
\* is fulfilled with the response of the error and no alert is committed;
\* for every other rejection of the transport one danger alert is committed
\* and the promise is rejected with the error of the transport.
C35_FulfillProblem == []FulfilledOrAlerted /\ [][AlertedOnce]_vars

\* fulfillProblem returned false for the Problem: a danger alert was
\* committed and the promise rejected with the error of the transport.
C35_Witness ==
  /\ requestMixin.pc = "settled"
  /\ requestMixin.transport = "problem"
  /\ requestMixin.fulfillProblem = "declines"
  /\ requestMixin.consulted
  /\ requestMixin.settled = "error"
  /\ store.alert = "danger"
  /\ ~RouteChanged

----------------------------------------------------------------------------
(* The lock while a series holds it (SpecSeries).                           *)

\* C36: the module-level inProgress is true whenever some series is between
\* the step that acquired the lock and its own cleanup, so that a series
\* that never acquired the lock does not release the lock of another.
C36_LockHeld ==
  \A s \in Series : ctx[s].inProgress => inProgress

----------------------------------------------------------------------------
(* A chain after a series of it rejected (SpecChain).                       *)

\* The series before s in its chain has rejected, and the callback of
\* _initialPromise() of s has been skipped.
RejectedBefore(s) ==
  /\ Predecessor(s) # Null
  /\ err[Predecessor(s)] # ""
  /\ pc[s] \notin {"config", "init", "threw"}

\* Such a series is rejected with the error of the series before it and has
\* set nothing: no lock, no stub, no component, no navigation, no request
\* received, no hook called, no completion callback called.
RejectedWithSameError ==
  \A s \in Series : RejectedBefore(s) =>
    /\ err[s] = err[Predecessor(s)]
    /\ ctx[s] = InitialContext
    /\ http # s
    /\ pc[s] \in {"wait", "restoreHttp", "cleanUp", "done"}

\* Its steps leave the transport as it is.
TransportLeftAlone ==
  \A s \in Series :
    (Predecessor(s) # Null /\ err[Predecessor(s)] # "" /\ pc'[s] # pc[s]
       /\ pc[s] # "config")
      => /\ http' = http
         /\ ctx' = ctx
         /\ pc'[s] \notin {"beforeEachNav", "navigateAndMount", "navigating",
                           "requesting", "checkState", "callback"}

----------------------------------------------------------------------------
(* The order of the tests of _checkStateAfterWait() (SpecVerify).           *)

\* The problems _checkStateAfterWait() tests for, in the order of its
\* tests, with the error each one throws.
Problems(c) ==
  <<[present |-> c.errorFromBeforeEachNav, error |-> BeforeEachNavError],
    [present |-> c.errorFromBeforeAnyResponse,
     error |-> BeforeAnyResponseError],
    [present |-> c.errorFromBeforeEachResponse,
     error |-> BeforeEachResponseError],
    [present |-> c.errorFromResponse # Null, error |-> ResponseCallbackError],
    [present |-> c.requestWithoutResponse, error |-> RequestWithoutResponse],
    [present |-> c.responseWithoutRequest, error |-> ResponseWithoutRequest]>>

Present(c) == {k \in 1..Len(Problems(c)) : Problems(c)[k].present}

\* _checkStateAfterWait() runs for series s.
Verifies(s) == pc[s] = "checkState" /\ pc'[s] # "checkState"

\* C38: when _checkStateAfterWait() runs with several problems present it
\* throws one error, that of the first problem present in the order: error
\* of the guard, of beforeAnyResponse(), of beforeEachResponse(), of a
\* response callback, request without response, response without request.
C38_VerifyOrder ==
  [][\A s \in Series : Verifies(s) =>
       IF Present(ctx[s]) = {}
         THEN err'[s] = "" /\ pc'[s] = "callback"
         ELSE \E k \in Present(ctx[s]) :
                /\ \A j \in Present(ctx[s]) : k <= j
                /\ err'[s] = Problems(ctx[s])[k].error
                /\ pc'[s] = "cleanUp"]_vars

\* The guard, both hooks and the response callback threw and a queued
\* response was not requested; the series was rejected with the error of
\* the guard.
C38_Witness ==
  \E s \in Series :
    /\ pc[s] = "done"
    /\ Present(ctx[s]) = {1, 2, 3, 4, 6}
    /\ err[s] = BeforeEachNavError

----------------------------------------------------------------------------
(* The counter and the two cardinality flags of the stub (Spec).            *)

\* Series s has acquired the lock, which initialised its counter and flags
\* (a series with queued responses leaves the initial context when it does).
Initialised(s) == ctx[s] # InitialContext

\* The number of requests the stub of series s has received.
Arrived(s) == Cardinality(Requests(s))

CountWithinResponses(s) == ctx[s].count <= Len(Responses(s))

FlagWhileFewerRequests(s) ==
  ctx[s].responseWithoutRequest <=> Arrived(s) < Len(Responses(s))

\* C39: the number of responses the stub has used never exceeds the number
\* of queued responses; responseWithoutRequest is true exactly while fewer
\* requests have arrived than responses are queued; requestWithoutResponse,
\* once set, stays set.
C39_CardinalityFlags ==
  /\ [](\A s \in Series : Initialised(s) =>
          CountWithinResponses(s) /\ FlagWhileFewerRequests(s))
  /\ [][\A s \in Series :
          ctx[s].requestWithoutResponse => ctx'[s].requestWithoutResponse]_vars

\* Two responses were queued and three requests arrived: both responses
\* were used, the third request set requestWithoutResponse and the series
\* has ended with the flag still set.
C39_Witness ==
  \E s \in Series :
    /\ pc[s] = "done"
    /\ Len(Responses(s)) = 2
    /\ Arrived(s) = 3
    /\ ctx[s].count = 2
    /\ ctx[s].requestWithoutResponse
    /\ ~ctx[s].responseWithoutRequest

----------------------------------------------------------------------------
(* Each response callback is called once, after its request (Spec).         *)

\* The links of the chain of series s whose response callback was called.
CallbackCalled(s) ==
  {i \in Links(s) : ctx[s].chain[i].phase = "responded"}

\* No two links of the chain call the same response callback.
OneLinkPerCallback(s) ==
  \A i, j \in Links(s) :
    i # j => ctx[s].chain[i].callback # ctx[s].chain[j].callback

\* The callback a link calls is the one of the request that made the link,
\* and that request is in the log.
CalledAfterItsRequest(s) ==
  \A i \in CallbackCalled(s) :
    /\ ctx[s].chain[i].callback = ctx[s].chain[i].request
    /\ \E k \in Requests(s) :
         ctx[s].requestResponseLog[k].n = ctx[s].chain[i].callback

FewerResponsesLogged(s) ==
  Cardinality(ResponseEntries(s)) <= Cardinality(Requests(s))

\* C40: each queued response callback is called at most once in an
\* execution of a series, callback i only after the i-th request was
\* received, and the log never holds more responses than requests.
C40_CallbackAfterRequest ==
  /\ [](\A s \in Series :
          /\ OneLinkPerCallback(s)
          /\ CalledAfterItsRequest(s)
          /\ FewerResponsesLogged(s))
  /\ [][\A s \in Series : \A i \in CallbackCalled(s) :
          /\ i \in Links(s)'
          /\ ctx'[s].chain[i] = ctx[s].chain[i]]_vars

\* Three requests arrived for two queued responses: both callbacks were
\* called, each once, and the log holds two responses.
C40_Witness ==
  \E s \in Series :
    /\ pc[s] = "done"
    /\ Cardinality(Requests(s)) = 3
    /\ Cardinality(CallbackCalled(s)) = 2
    /\ Cardinality(ResponseEntries(s)) = 2

====
